----------------------- MODULE CompressedImage_proofs -----------------------
(***************************************************************************)
(* What holds of the passes over a compressed image for files of any       *)
(* length, altered at any moment to anything, and for every size of the    *)
(* buffers, the budget, the chunks and the target.                         *)
(***************************************************************************)
EXTENDS CompressedImage, SequenceTheorems, WellFoundedInduction, TLAPS

\* The balance never exceeds the cap, and lags behind by one buffer at most.
MeterInv ==
  /\ BudgetTypeOK
  /\ charged <= consumed /\ credited <= produced
  /\ cursor - charged <= Buffer

\* A pass that reads is active; a replay asks for no more than remains.
ReadInv ==
  /\ call # "none" => status = "active" /\ stage \in {"preflight", "replay"}
  /\ stage = "opened" => status = "active"
  /\ stage = "replay" =>
       /\ produced <= logicalSize
       /\ call # "none" /\ ~probing => room <= logicalSize - produced
  /\ mark.input <= consumed /\ mark.output <= produced
  /\ Len(buffer) <= Buffer

\* A replay takes no more from its decoder than Preflight measured, and does not ask it
\* for more before it looks for the end.
WithinTheSize ==
  stage = "replay" =>
    /\ produced <= logicalSize
    /\ call # "none" /\ ~probing => produced + room <= logicalSize

StreamInv == TypeOK /\ MeterInv /\ ReadInv

-----------------------------------------------------------------------------
(* Arithmetic.                                                             *)

\* What is credited for some output, with what is carried, is worth that output.
LEMMA ExtraIsExact ==
  ASSUME NEW R \in Nat \ {0}, NEW c \in 0..(R - 1), NEW p \in Nat
  PROVE  LET e == (p \div R) + ((c + (p % R)) \div R)
             d == (c + (p % R)) % R
         IN  e \in Nat /\ d \in 0..(R - 1) /\ R * e + d = c + p
<1> DEFINE q == p \div R
           r == p % R
           q2 == (c + r) \div R
           d == (c + r) % R
<1>1. q \in Nat /\ r \in 0..(R - 1) /\ p = R * q + r
  OBVIOUS
<1>2. q2 \in Nat /\ d \in 0..(R - 1) /\ c + r = R * q2 + d
  BY <1>1
<1>3. R * (q + q2) = R * q + R * q2
  BY <1>1, <1>2
<1>4. R * (q + q2) + d = c + p
  BY <1>1, <1>2, <1>3
<1> QED
  BY <1>1, <1>2, <1>4

\* One update of the balance, accepted or refused.
LEMMA MeterSteps ==
  ASSUME BudgetTypeOK, NEW input \in Nat, NEW output \in Nat,
         charged <= input, credited <= output,
         Charge(input, output) \/ Refuse(input, output)
  PROVE  /\ BudgetTypeOK'
         /\ credited' = output
         /\ charged' \in {charged, input}
         /\ Charge(input, output) => charged' = input
         /\ tokens' + charged' - charged <= Cap
         /\ \E e \in Nat :
              /\ Rate * e + carried' = carried + (output - credited)
              /\ tokens' + charged' - charged <= tokens + (output - credited) + e
<1> DEFINE p == output - credited
           e == Extra(p)
<1>1. p \in Nat /\ Rate \in Nat \ {0} /\ Cap \in Nat /\ carried \in 0..(Rate - 1)
  BY BudgetAssumption DEF BudgetTypeOK
<1>2. e \in Nat /\ (carried + (p % Rate)) % Rate \in 0..(Rate - 1)
      /\ Rate * e + ((carried + (p % Rate)) % Rate) = carried + p
  BY <1>1, ExtraIsExact DEF Extra
<1>3. carried' = (carried + (p % Rate)) % Rate /\ credited' = output
  BY DEF Charge, Refuse, Credit
<1>4. CreditedTokens(p) \in 0..Cap /\ CreditedTokens(p) <= tokens + p + e
  <2> HIDE DEF e, p
  <2> QED
    BY <1>1, <1>2, Extra(p) = e DEF CreditedTokens, BankedTokens, Smaller, BudgetTypeOK, e
<1>5. /\ charged' \in {charged, input} /\ (Charge(input, output) => charged' = input)
      /\ charged \in Nat /\ tokens' \in 0..Cap
      /\ tokens' + charged' - charged = CreditedTokens(p)
  <2> HIDE DEF e
  <2> QED
    BY <1>1, <1>4 DEF Charge, Refuse, Covers, BudgetTypeOK
<1>6. BudgetTypeOK'
  BY <1>2, <1>3, <1>5 DEF BudgetTypeOK
<1>7. tokens' + charged' - charged <= Cap
  <2> DEFINE all == CreditedTokens(p)
  <2>1. all \in 0..Cap /\ Cap \in Nat
    BY <1>1, <1>4
  <2>2. tokens' + charged' - charged = all
    BY <1>5
  <2> HIDE DEF all
  <2> QED
    BY <2>1, <2>2
<1>8. \E x \in Nat : /\ Rate * x + carried' = carried + (output - credited)
                     /\ tokens' + charged' - charged <= tokens + (output - credited) + x
  <2>1. Rate * e + carried' = carried + p /\ tokens' + charged' - charged <= tokens + p + e
    BY <1>2, <1>3, <1>4, <1>5
  <2> HIDE DEF e
  <2> QED
    BY <2>1, <1>2
<1> QED
  BY <1>3, <1>5, <1>6, <1>7, <1>8

\* What a buffer gives up, and what the source cursor gives.
LEMMA TakenUnit ==
  ASSUME NEW b \in Seq(Units), b # <<>>
  PROVE  Head(b) \in Units /\ Tail(b) \in Seq(Units) /\ Len(Tail(b)) = Len(b) - 1 /\ Len(b) \in Nat
OBVIOUS

LEMMA UpcomingIsBounded ==
  ASSUME TypeOK
  PROVE  /\ Upcoming \in Seq(Units) /\ Len(Upcoming) \in 0..Buffer
         /\ cursor + Len(Upcoming) <= compressedSize
         /\ Len(Upcoming) = 0 <=> Upcoming = <<>>
<1>1. disk \in Seq(Units) /\ opened \in Seq(Units) /\ Buffer \in Nat \ {0}
  BY DecodeAssumption DEF TypeOK
<1>2. cursor \in Nat /\ cursor <= Len(opened) /\ Len(opened) \in Nat /\ Len(disk) \in Nat
  BY <1>1 DEF TypeOK, compressedSize
<1> DEFINE end == Smaller(cursor + Buffer, End)
<1>3. end \in Nat /\ end <= cursor + Buffer /\ end <= Len(disk) /\ end <= Len(opened)
  BY <1>1, <1>2 DEF Smaller, End, compressedSize
<1>4. Upcoming = SubSeq(disk, cursor + 1, end)
  BY DEF Upcoming
<1> HIDE DEF end
<1>5. CASE cursor + 1 <= end
  <2>1. Upcoming \in Seq(Units) /\ Len(Upcoming) = end - cursor
    BY <1>1, <1>2, <1>3, <1>4, <1>5
  <2> QED
    BY <2>1, <1>1, <1>2, <1>3, <1>5 DEF compressedSize
<1>6. CASE end < cursor + 1
  <2>1. Upcoming = <<>>
    BY <1>1, <1>2, <1>3, <1>4, <1>6
  <2> QED
    BY <2>1, <1>1, <1>2 DEF compressedSize
<1> QED
  BY <1>2, <1>3, <1>5, <1>6

-----------------------------------------------------------------------------
(* The invariant of the passes.                                            *)

LEMMA StreamInvInit == Init => StreamInv
<1> SUFFICES ASSUME Init PROVE StreamInv
  OBVIOUS
<1>1. /\ Len(opened) \in Nat /\ Buffer \in Nat /\ Quantum \in Nat
      /\ Limit \in Nat /\ Cap \in Nat /\ Rate \in Nat \ {0}
  BY DecodeAssumption, BudgetAssumption DEF Init
<1>2. BudgetTypeOK
  BY <1>1 DEF Init, NewBudget, BudgetTypeOK
<1>3. TypeOK
  <2>1. mark \in [input : Nat, output : Nat] /\ buffer \in Seq(Units) /\ Len(buffer) = 0
    BY DEF Init
  <2>2. /\ cursor \in 0..compressedSize /\ consumed + Len(buffer) = cursor
        /\ room \in 0..Quantum \cup {Probe} /\ produced \in 0..Limit /\ delivered \in 0..produced
        /\ logicalSize \in 0..Limit /\ asked \in 0..compressedSize
    BY <1>1, <2>1 DEF Init, compressedSize
  <2> QED
    BY <1>2, <2>1, <2>2 DEF Init, TypeOK, Verdicts
<1> QED
  BY <1>1, <1>2, <1>3 DEF Init, NewBudget, StreamInv, MeterInv, ReadInv

\* A check before more input: the meter moves, and the buffer may be filled again.
LEMMA ChecksKeep == StreamInv /\ (Fill \/ SourceFails) => StreamInv'
<1> SUFFICES ASSUME StreamInv, Fill \/ SourceFails PROVE StreamInv'
  OBVIOUS
<1> USE DEF StreamInv, TypeOK, ReadInv, MeterInv
<1>1. /\ consumed \in Nat /\ produced \in Nat /\ cursor \in Nat /\ Len(buffer) \in Nat
      /\ Buffer \in Nat \ {0} /\ Limit \in Nat
      /\ buffer \in Seq(Units) /\ compressedSize \in Nat /\ Cap \in Nat
  <2>1. opened \in Seq(Units) /\ Len(opened) \in Nat
    BY DecodeAssumption
  <2> QED
    BY <2>1, DecodeAssumption, BudgetAssumption DEF compressedSize
<1>2. /\ UNCHANGED <<opened, disk, logicalSize, cancelled, consumed, held, member, room,
                     produced, probing, delivered, asked, mark>>
      /\ compressedSize' = compressedSize
  BY DEF Fill, SourceFails, file, decoder, history, compressedSize
<1>3. /\ BudgetTypeOK' /\ credited' <= produced /\ charged' \in {charged, consumed}
      /\ charged \in Nat
      /\ UNCHANGED budget \/ Charge(consumed, produced) \/ Refuse(consumed, produced)
      /\ Charge(consumed, produced) => charged' = consumed
  <2>1. BudgetTypeOK /\ charged <= consumed /\ credited <= produced
    OBVIOUS
  <2>2. UNCHANGED budget \/ Charge(consumed, produced) \/ Refuse(consumed, produced)
    BY DEF Fill, SourceFails
  <2>3. CASE UNCHANGED budget
    <3>1. ~Charge(consumed, produced) \/ charged' = consumed
      BY DEF Charge
    <3> QED
      BY <2>1, <2>3, <3>1 DEF budget, BudgetTypeOK
  <2>4. CASE Charge(consumed, produced) \/ Refuse(consumed, produced)
    <3>1. BudgetTypeOK' /\ credited' = produced /\ charged' \in {charged, consumed}
          /\ (Charge(consumed, produced) => charged' = consumed)
      BY <1>1, <2>1, <2>4, MeterSteps
    <3> QED
      BY <1>1, <2>1, <2>2, <3>1 DEF BudgetTypeOK
  <2> QED
    BY <2>2, <2>3, <2>4
<1>4. CASE UNCHANGED source /\ \E why \in Verdicts : Fail(why)
  <2>1. /\ cursor' = cursor /\ buffer' = buffer /\ call' = "none" /\ status' \in Verdicts
        /\ stage' \in {stage, "refused"} /\ stage # "opened"
    BY <1>4 DEF source, Fail, Fill, SourceFails
  <2>2. TypeOK'
    BY <1>2, <1>3, <2>1
  <2>3. MeterInv'
    <3>1. charged <= consumed /\ cursor - charged <= Buffer
      OBVIOUS
    <3>2. /\ {consumed, charged, cursor, Buffer} \subseteq Int /\ charged' \in {charged, consumed}
          /\ consumed' = consumed /\ cursor' = cursor
      BY <1>1, <1>2, <1>3, <2>1
    <3> HIDE DEF StreamInv, TypeOK, ReadInv, MeterInv
    <3>3. charged' <= consumed' /\ cursor' - charged' <= Buffer
      BY <3>1, <3>2
    <3> QED
      BY <1>2, <1>3, <3>3 DEF MeterInv
  <2>4. ReadInv'
    BY <1>1, <1>2, <2>1
  <2> QED
    BY <2>2, <2>3, <2>4
<1>5. CASE Charge(consumed, produced) /\ Refill /\ UNCHANGED <<stage, status>> /\ call = "fill"
  <2>1. charged' = consumed /\ call' \in {"run", "eof"}
    BY <1>3, <1>5 DEF Refill
  <2>2. CASE UNCHANGED source
    BY <1>1, <1>2, <1>3, <1>5, <2>1, <2>2 DEF source
  <2>3. CASE buffer = <<>> /\ buffer' = Upcoming /\ cursor' = cursor + Len(Upcoming)
    <3>1. /\ Upcoming \in Seq(Units) /\ Len(Upcoming) \in 0..Buffer
          /\ cursor + Len(Upcoming) <= compressedSize
      BY UpcomingIsBounded
    <3>2. consumed = cursor
      BY <1>1, <2>3
    <3> QED
      BY <1>1, <1>2, <1>3, <1>5, <2>1, <2>3, <3>1, <3>2
  <2> QED
    BY <1>5, <2>2, <2>3 DEF Refill
<1> QED
  <2>1. {"Cancelled", "InputBudgetExceeded", "SourceIo"} \subseteq Verdicts
    BY DEF Verdicts, OwnFailures
  <2> QED
    BY <1>4, <1>5, <2>1 DEF Fill, SourceFails

\* One unit goes from the buffer to the decoder.
LEMMA TakeKeeps == StreamInv /\ Take => StreamInv'
<1> SUFFICES ASSUME StreamInv, Take PROVE StreamInv'
  OBVIOUS
<1> USE DEF StreamInv, TypeOK, ReadInv, MeterInv
<1> DEFINE u == Head(buffer)
<1>1. /\ u \in Units /\ Tail(buffer) \in Seq(Units) /\ Len(Tail(buffer)) = Len(buffer) - 1
      /\ Len(buffer) \in Nat
  BY TakenUnit DEF Take
<1>2. /\ UNCHANGED <<opened, disk, logicalSize, cancelled, cursor, room, produced, probing,
                     delivered, asked, mark, tokens, carried, credited, charged>>
      /\ compressedSize' = compressedSize
      /\ buffer' = Tail(buffer) /\ consumed' = consumed + 1
      /\ call = "run"
  BY DEF Take, file, history, budget, compressedSize
<1>3. /\ held' \in Nat /\ member' \in Versions \cup {"unstarted", "ended", "mixed"}
      /\ \/ call' \in {"run", "fill"} /\ UNCHANGED <<stage, status>>
         \/ call' = "none" /\ status' \in Verdicts /\ stage' \in {stage, "refused"}
  <2>1. "Corrupt" \in Verdicts /\ (u.kind \notin {"data", "end"} => u.kind \in Verdicts)
        /\ u.out \in Nat /\ u.of \in Versions
    BY <1>1 DEF Units, Verdicts, Reports
  <2>2. held \in Nat /\ member \in Versions \cup {"unstarted", "ended", "mixed"}
    OBVIOUS
  <2>3. call = "run" /\ Take
    BY <1>2
  <2> HIDE DEF StreamInv, TypeOK, ReadInv, MeterInv
  <2>4. CASE u.kind = "data"
    <3>1. /\ held' = held + u.out /\ UNCHANGED <<stage, status, call>>
          /\ member' = IF member \in {"unstarted", "ended", u.of} THEN u.of ELSE "mixed"
      BY <2>4 DEF Take
    <3> HIDE DEF u
    <3> QED
      BY <2>1, <2>2, <2>3, <3>1
  <2>5. CASE u.kind = "end" /\ member \in {"unstarted", "ended", u.of}
    <3>1. member' = "ended" /\ call' \in {"run", "fill"} /\ UNCHANGED <<held, stage, status>>
      BY <2>5 DEF Take
    <3> HIDE DEF u
    <3> QED
      BY <2>2, <3>1
  <2>6. CASE u.kind = "end" /\ member \notin {"unstarted", "ended", u.of}
    <3>1. Fail("Corrupt") /\ UNCHANGED decoder
      BY <2>6 DEF Take
    <3> HIDE DEF u
    <3> QED
      BY <2>1, <2>2, <3>1 DEF Fail, decoder
  <2>7. CASE u.kind \notin {"data", "end"}
    <3>1. Fail(u.kind) /\ UNCHANGED decoder
      BY <2>7 DEF Take
    <3> HIDE DEF u
    <3> QED
      BY <2>1, <2>2, <2>7, <3>1 DEF Fail, decoder
  <2> QED
    BY <2>4, <2>5, <2>6, <2>7
<1>4. /\ charged <= consumed + 1 /\ consumed + 1 + Len(Tail(buffer)) = cursor
      /\ consumed \in Int /\ mark.input <= consumed + 1 /\ Len(Tail(buffer)) <= Buffer
  <2>1. Buffer \in Nat /\ charged \in Nat /\ mark.input \in Nat /\ consumed \in Nat
    BY DecodeAssumption DEF BudgetTypeOK
  <2> HIDE DEF u
  <2> QED
    BY <1>1, <2>1
<1>5. BudgetTypeOK'
  BY <1>2 DEF BudgetTypeOK
<1> HIDE DEF u
<1> QED
  BY <1>1, <1>2, <1>3, <1>4, <1>5

\* Output is counted by Preflight, or handed on by the replay.
LEMMA OutputKeeps == StreamInv /\ (Counted \/ Decoded \/ ProbeFinds) => StreamInv'
<1> SUFFICES ASSUME StreamInv, Counted \/ Decoded \/ ProbeFinds PROVE StreamInv'
  OBVIOUS
<1> DEFINE n == Smaller(held, room)
<1> USE DEF StreamInv
<1>1. /\ UNCHANGED <<opened, disk, logicalSize, cancelled, cursor, buffer, consumed, member,
                     tokens, carried, credited, charged, asked, mark>>
      /\ compressedSize' = compressedSize /\ held' = held - n
  BY DEF Counted, Decoded, ProbeFinds, file, source, history, budget, compressedSize
<1>2. /\ held \in Nat /\ room \in Nat /\ produced \in Nat /\ Limit \in Nat /\ logicalSize \in 0..Limit
      /\ mark.output \in Nat /\ credited \in Nat /\ delivered \in 0..produced /\ Probe \in Nat
  BY DecodeAssumption DEF TypeOK, BudgetTypeOK
<1>3. n \in Nat /\ n <= held /\ n <= room /\ held - n \in Nat
  BY <1>2 DEF Smaller
<1>4. BudgetTypeOK'
  BY <1>1 DEF MeterInv, BudgetTypeOK
<1> HIDE DEF n
<1>5. CASE Counted
  <2>1. /\ UNCHANGED <<room, probing, delivered>> /\ stage = "preflight"
        /\ \/ /\ produced' = produced /\ status' = "LogicalSizeLimitExceeded"
              /\ call' = "none" /\ stage' = "refused"
           \/ /\ produced' = produced + n /\ produced + n <= Limit
              /\ call' = "fill" /\ UNCHANGED <<stage, status>>
    BY <1>2, <1>3, <1>5 DEF Counted, Fail, n
  <2>2. produced' \in 0..Limit /\ produced <= produced' /\ delivered' \in 0..produced'
    BY <1>2, <1>3, <2>1 DEF TypeOK
  <2>3. status' \in Verdicts /\ (call' # "none" => status' = "active" /\ stage' = "preflight")
    <3>1. call # "none"
      BY <1>5 DEF Counted, Returned
    <3> QED
      BY <2>1, <3>1 DEF TypeOK, Verdicts, OwnFailures, ReadInv
  <2>4. TypeOK'
    BY <1>1, <1>3, <1>4, <2>1, <2>2, <2>3 DEF TypeOK
  <2>5. MeterInv'
    BY <1>1, <1>2, <1>4, <2>2 DEF MeterInv
  <2>6. ReadInv'
    <3>1. stage' \notin {"replay", "opened"} /\ mark' = mark /\ consumed' = consumed /\ buffer' = buffer
      BY <1>1, <2>1
    <3>2. mark.output <= produced'
      BY <1>2, <2>2 DEF ReadInv
    <3> QED
      BY <2>3, <3>1, <3>2 DEF ReadInv
  <2> QED
    BY <2>4, <2>5, <2>6
<1>6. CASE Decoded
  <2>1. /\ UNCHANGED <<stage, status>> /\ stage = "replay" /\ ~probing /\ call # "none"
        /\ produced' = produced + n
        /\ \/ /\ produced + n = logicalSize /\ probing' = TRUE /\ room' = Probe /\ call' = "fill"
              /\ delivered' = delivered
           \/ /\ produced + n # logicalSize /\ UNCHANGED <<probing, room>> /\ call' = "none"
              /\ delivered' = produced + n
    BY <1>6 DEF Decoded, Returned, n
  <2>2. /\ produced' \in 0..Limit /\ produced' <= logicalSize /\ produced <= produced'
        /\ delivered' \in 0..produced' /\ room' \in 0..Quantum \cup {Probe}
    BY <1>2, <1>3, <2>1 DEF TypeOK, ReadInv
  <2>3. TypeOK'
    BY <1>1, <1>3, <1>4, <2>1, <2>2 DEF TypeOK
  <2>4. MeterInv' /\ ReadInv'
    BY <1>1, <1>2, <1>4, <2>1, <2>2 DEF MeterInv, ReadInv
  <2> QED
    BY <2>3, <2>4
<1>7. CASE ProbeFinds
  <2>1. /\ UNCHANGED <<room, produced, probing, delivered>> /\ stage = "replay"
        /\ call' = "none" /\ status' = "LogicalSizeExceeded" /\ stage' = stage
    BY <1>7 DEF ProbeFinds, Fail
  <2>2. TypeOK'
    BY <1>1, <1>3, <1>4, <2>1 DEF TypeOK, Verdicts, OwnFailures
  <2>3. MeterInv' /\ ReadInv'
    BY <1>1, <1>2, <1>4, <2>1 DEF MeterInv, ReadInv
  <2> QED
    BY <2>2, <2>3
<1> QED
  BY <1>5, <1>6, <1>7

\* The decoder's end, or no output yet.
LEMMA EndsKeep == StreamInv /\ (Continue \/ Measured \/ Ended \/ ProbeEnds) => StreamInv'
<1> SUFFICES ASSUME StreamInv, Continue \/ Measured \/ Ended \/ ProbeEnds PROVE StreamInv'
  OBVIOUS
<1> USE DEF StreamInv
<1>1. /\ UNCHANGED <<opened, disk, cancelled, cursor, buffer, consumed, held, member, room,
                     produced, probing, tokens, carried, credited, charged, asked, mark>>
      /\ compressedSize' = compressedSize /\ call # "none"
  BY DEF Continue, Measured, Ended, ProbeEnds, AtEnd, file, source, decoder, history, budget,
         compressedSize
<1>2. /\ produced \in 0..Limit /\ Limit \in Nat /\ logicalSize \in 0..Limit /\ delivered \in 0..produced
      /\ logicalSize' \in {logicalSize, produced} /\ delivered' \in {delivered, produced}
  BY DecodeAssumption DEF TypeOK, Continue, Measured, Ended, ProbeEnds
<1>3. BudgetTypeOK'
  BY <1>1 DEF MeterInv, BudgetTypeOK
<1>4. \/ call' = "none" /\ status' \in Verdicts /\ stage' \in {"refused", "measured"}
      \/ call' = "none" /\ status' \in Verdicts /\ stage' = stage /\ logicalSize' = logicalSize
      \/ call' = "fill" /\ UNCHANGED <<stage, status, logicalSize>>
  BY DEF Continue, Measured, Ended, ProbeEnds, Fail, TypeOK, Verdicts, OwnFailures, Reports
<1>5. TypeOK'
  <2>1. logicalSize' \in 0..Limit /\ delivered' \in 0..produced'
    BY <1>1, <1>2
  <2> QED
    BY <1>1, <1>3, <1>4, <2>1 DEF TypeOK
<1>6. MeterInv' /\ ReadInv'
  BY <1>1, <1>2, <1>3, <1>4 DEF MeterInv, ReadInv
<1> QED
  BY <1>5, <1>6

\* The operation around the passes, and its environment.
LEMMA OperationKeeps == StreamInv /\ (Operation \/ Environment) => StreamInv'
<1> SUFFICES ASSUME StreamInv, Operation \/ Environment PROVE StreamInv'
  OBVIOUS
<1> USE DEF StreamInv
<1>1. /\ {consumed, produced, cursor} \subseteq Nat /\ Limit \in Nat /\ logicalSize \in 0..Limit
      /\ Len(buffer) \in Nat /\ consumed <= cursor /\ cursor \in 0..compressedSize
      /\ Len(opened) \in Nat /\ {Quantum, Probe, Chunk, Buffer} \subseteq Nat \ {0}
      /\ Cap \in Nat /\ Rate \in Nat \ {0} /\ delivered \in 0..produced
  <2>1. opened \in Seq(Units) /\ buffer \in Seq(Units) /\ Len(buffer) \in Nat /\ Len(opened) \in Nat
    BY DecodeAssumption DEF TypeOK
  <2> QED
    BY <2>1, DecodeAssumption, BudgetAssumption DEF TypeOK
<1>2. CASE SourceFails
  BY <1>2, ChecksKeep
<1>3. CASE Alter \/ RequestCancel \/ BeginStretch
  <2>1. /\ UNCHANGED <<opened, stage, status, logicalSize, cursor, buffer, consumed, held, member,
                       call, room, produced, probing, delivered, tokens, carried, credited, charged>>
        /\ compressedSize' = compressedSize
        /\ disk' \in {disk} \cup Altered /\ cancelled' \in BOOLEAN
        /\ asked' \in {asked, consumed}
        /\ mark' \in {mark, [input |-> consumed, output |-> produced]}
    <3>1. asked \in 0..compressedSize /\ consumed \in 0..compressedSize /\ cancelled \in BOOLEAN
      BY <1>1 DEF TypeOK, compressedSize
    <3>2. CASE Alter
      BY <3>1, <3>2 DEF Alter, file, source, decoder, reader, budget, history, compressedSize
    <3>3. CASE RequestCancel
      BY <3>1, <3>3 DEF RequestCancel, file, source, decoder, reader, budget, compressedSize
    <3>4. CASE BeginStretch
      BY <3>1, <3>4 DEF BeginStretch, file, source, decoder, reader, budget, compressedSize
    <3> QED
      BY <1>3, <3>2, <3>3, <3>4
  <2>2. /\ mark' \in [input : Nat, output : Nat] /\ asked' \in 0..compressedSize
        /\ mark'.input <= consumed /\ mark'.output <= produced
    BY <1>1, <2>1 DEF TypeOK, ReadInv, compressedSize
  <2>3. BudgetTypeOK'
    BY <2>1 DEF MeterInv, BudgetTypeOK
  <2>4. TypeOK'
    BY <2>1, <2>2, <2>3 DEF TypeOK
  <2>5. MeterInv' /\ ReadInv'
    BY <2>1, <2>2, <2>3 DEF MeterInv, ReadInv
  <2> QED
    BY <2>4, <2>5
<1>4. CASE BeginPreflight \/ Revalidate \/ Read
  <2>1. /\ UNCHANGED <<opened, disk, logicalSize, cancelled, cursor, buffer, consumed, held, member,
                       produced, delivered, tokens, carried, credited, charged, asked, mark>>
        /\ compressedSize' = compressedSize
    BY <1>4 DEF BeginPreflight, Revalidate, Read, file, source, decoder, budget, history,
                compressedSize
  <2>2. BudgetTypeOK'
    BY <2>1 DEF MeterInv, BudgetTypeOK
  <2>3. CASE BeginPreflight \/ Revalidate
    <3>1. /\ stage' \in {"refused", "preflight", "prepared"} /\ status' \in Verdicts
          /\ probing' = probing
          /\ room' \in {room, Quantum} /\ call' \in {call, "fill"}
          /\ call' # call => status' = status /\ stage' = "preflight" /\ stage = "opened"
          /\ stage = "measured" => call' = call
          /\ stage \in {"opened", "measured"}
      BY <2>3 DEF BeginPreflight, Revalidate, TypeOK, Verdicts, OwnFailures
    <3>2. call = "none"
      BY <3>1 DEF ReadInv, TypeOK
    <3>3. TypeOK'
      BY <1>1, <2>1, <2>2, <3>1, <3>2 DEF TypeOK
    <3>4. MeterInv'
      BY <2>1, <2>2 DEF MeterInv
    <3>5. ReadInv'
      <4>1. stage' \notin {"replay", "opened"} /\ (call' # "none" => status' = "active" /\ stage' = "preflight")
        BY <3>1, <3>2, <2>3 DEF ReadInv
      <4> QED
        BY <2>1, <4>1 DEF ReadInv
    <3> QED
      BY <3>3, <3>4, <3>5
  <2>4. CASE Read
    <3>1. /\ UNCHANGED <<stage, status>> /\ stage = "replay" /\ status = "active" /\ call' = "fill"
          /\ probing' = (Remaining = 0)
          /\ room' = IF Remaining = 0 THEN Probe ELSE Wanted
      BY <2>4 DEF Read
    <3>2. Remaining \in Nat /\ produced % Chunk \in 0..(Chunk - 1)
      <4>1. produced \in Nat /\ logicalSize \in Nat /\ produced <= logicalSize /\ Chunk \in Nat \ {0}
        BY <1>1, <3>1 DEF ReadInv
      <4> QED
        BY <4>1 DEF Remaining
    <3>3. Wanted \in 0..Quantum /\ Wanted <= Remaining
      BY <1>1, <3>2 DEF Wanted, Smaller
    <3>4. TypeOK'
      BY <2>1, <2>2, <3>1, <3>3 DEF TypeOK
    <3>5. MeterInv'
      BY <2>1, <2>2 DEF MeterInv
    <3>6. ReadInv'
      BY <1>1, <2>1, <3>1, <3>3 DEF ReadInv, Remaining
    <3> QED
      BY <3>4, <3>5, <3>6
  <2> QED
    BY <1>4, <2>3, <2>4
<1>5. CASE OpenReader
  <2>1. /\ UNCHANGED <<opened, disk, logicalSize, cancelled, call, room, asked>>
        /\ compressedSize' = compressedSize
        /\ cursor' = 0 /\ buffer' = <<>> /\ consumed' = 0 /\ held' = 0 /\ member' = "unstarted"
        /\ produced' = 0 /\ probing' = FALSE /\ delivered' = 0
        /\ mark' = [input |-> 0, output |-> 0]
        /\ tokens' = Cap /\ carried' = 0 /\ credited' = 0 /\ charged' = 0
        /\ call = "none" /\ stage' = "replay" /\ status' \in {"active", "DecoderFailure"}
    BY <1>5 DEF OpenReader, Fresh, ResetBudget, file, compressedSize
  <2>2. BudgetTypeOK'
    BY <1>1, <2>1 DEF BudgetTypeOK
  <2>3. TypeOK'
    <3>1. mark' \in [input : Nat, output : Nat] /\ buffer' \in Seq(Units) /\ Len(buffer') = 0
      BY <2>1
    <3>2. cursor' \in 0..compressedSize' /\ produced' \in 0..Limit /\ delivered' \in 0..produced'
          /\ consumed' + Len(buffer') = cursor'
      BY <1>1, <2>1, <3>1 DEF compressedSize
    <3> QED
      BY <2>1, <2>2, <3>1, <3>2 DEF TypeOK, Verdicts, OwnFailures
  <2>4. MeterInv' /\ ReadInv'
    BY <1>1, <2>1, <2>2 DEF MeterInv, ReadInv
  <2> QED
    BY <2>3, <2>4
<1> QED
  BY <1>2, <1>3, <1>4, <1>5 DEF Operation, Environment

LEMMA StreamInvStep == StreamInv /\ [Next]_vars => StreamInv'
<1> SUFFICES ASSUME StreamInv, [Next]_vars PROVE StreamInv'
  OBVIOUS
<1>1. CASE UNCHANGED vars
  BY <1>1 DEF vars, file, source, decoder, reader, budget, history, StreamInv, TypeOK, MeterInv,
              ReadInv, BudgetTypeOK, compressedSize
<1> QED
  BY <1>1, ChecksKeep, TakeKeeps, OutputKeeps, EndsKeep, OperationKeeps DEF Next, Decode

\* The passes keep their types, and no replay takes more from its decoder than Preflight
\* measured, nor asks it for more before the end is looked for: for any file, however it
\* is altered, and any sizes of buffer, budget, chunk and target (decode_to_end,
\* StrictReplayReader).
THEOREM PassesAreTyped == Spec => [](TypeOK /\ WithinTheSize)
<1>1. StreamInv => TypeOK /\ WithinTheSize
  <2> SUFFICES ASSUME StreamInv PROVE TypeOK /\ WithinTheSize
    OBVIOUS
  <2>1. TypeOK
    BY DEF StreamInv
  <2>2. /\ produced \in Nat /\ logicalSize \in Nat /\ room \in Nat
        /\ Limit \in Nat /\ Quantum \in Nat /\ Probe \in Nat
    BY <2>1, DecodeAssumption DEF TypeOK
  <2>3. WithinTheSize
    BY <2>2 DEF StreamInv, ReadInv, WithinTheSize
  <2> QED
    BY <2>1, <2>3
<1> QED
  BY <1>1, StreamInvInit, StreamInvStep, PTL DEF Spec

-----------------------------------------------------------------------------
(* The end is verified, and failures are final.                            *)

\* Until a replay has succeeded it owes bytes; when it has, nothing is left over.
OwingInv ==
  stage = "replay" =>
    /\ status = "succeeded" =>
         consumed = compressedSize /\ member = "ended" /\ held = 0 /\ call = "none"
    /\ status # "succeeded" /\ logicalSize > 0 => delivered < logicalSize

\* The last byte of a replay is handed out only when the whole stream has been
\* verified again, for every file and every way it is altered (StrictReplayReader).
THEOREM EndsAreVerified == Spec => []FinalBytesAreVerified
<1>1. Init => OwingInv
  BY DEF Init, OwingInv
<1>2. StreamInv /\ OwingInv /\ [Next]_vars => OwingInv'
  <2> SUFFICES ASSUME StreamInv, OwingInv, [Next]_vars PROVE OwingInv'
    OBVIOUS
  <2> USE DEF OwingInv
  <2>1. CASE UNCHANGED vars
    BY <2>1 DEF vars, file, source, decoder, reader, compressedSize
  <2>2. CASE Fill \/ SourceFails \/ Continue \/ Counted \/ Measured
    BY <2>2 DEF Fill, SourceFails, Continue, Counted, Measured, Fail, StreamInv, ReadInv, file,
                decoder, Returned, AtEnd, compressedSize
  <2>3. CASE Take
    <3>1. /\ status # "succeeded" /\ status' # "succeeded" /\ UNCHANGED <<logicalSize, delivered>>
          /\ stage' \in {stage, "refused"}
      <4>1. Head(buffer) \in Units /\ status = "active"
        BY <2>3, TakenUnit DEF Take, StreamInv, TypeOK, ReadInv
      <4>2. Head(buffer).kind \in {"data", "end"} \cup Reports
        BY <4>1 DEF Units
      <4> QED
        BY <2>3, <4>1, <4>2 DEF Take, Fail, Reports
    <3> QED
      BY <3>1
  <2>4. CASE Decoded
    <3>1. /\ stage = "replay" /\ status # "succeeded" /\ UNCHANGED <<stage, status, logicalSize>>
          /\ produced \in Nat /\ delivered \in Nat /\ logicalSize \in Nat
      BY <2>4, DecodeAssumption DEF Decoded, Returned, StreamInv, ReadInv, TypeOK
    <3>2. CASE delivered' = delivered
      BY <3>1, <3>2
    <3>3. CASE delivered' # delivered
      <4>1. delivered' = produced' /\ produced' # logicalSize
        BY <2>4, <3>3 DEF Decoded
      <4>2. produced' \in Nat /\ produced' <= logicalSize'
        BY <2>4, <3>1, StreamInvStep, DecodeAssumption DEF StreamInv, TypeOK, ReadInv
      <4> QED
        BY <3>1, <4>1, <4>2
    <3> QED
      BY <3>2, <3>3
  <2>5. CASE Ended \/ ProbeFinds
    BY <2>5 DEF Ended, ProbeFinds, Fail, StreamInv, ReadInv, file, AtEnd, Returned
  <2>6. CASE ProbeEnds
    BY <2>6 DEF ProbeEnds, Fail, StreamInv, ReadInv, file, AtEnd, decoder, compressedSize
  <2>7. CASE Alter \/ RequestCancel \/ BeginStretch
    BY <2>7 DEF Alter, RequestCancel, BeginStretch, reader, file, decoder, compressedSize
  <2>8. CASE BeginPreflight \/ Revalidate \/ Read
    BY <2>8 DEF BeginPreflight, Revalidate, Read
  <2>9. CASE OpenReader
    BY <2>9 DEF OpenReader, Fresh
  <2> QED
    BY <2>1, <2>2, <2>3, <2>4, <2>5, <2>6, <2>7, <2>8, <2>9
       DEF Next, Decode, Operation, Environment
<1>3. StreamInv /\ OwingInv => FinalBytesAreVerified
  BY DecodeAssumption DEF OwingInv, FinalBytesAreVerified, StreamInv, TypeOK
<1> QED
  BY <1>1, <1>2, <1>3, StreamInvInit, StreamInvStep, PTL DEF Spec

\* A failed reader keeps its category and delivers nothing (StrictReplayReader).
THEOREM FailuresAreFinal == Spec => FailureIsFinal
<1>1. StreamInv /\ [Next]_vars =>
        (stage = "replay" /\ Failed => OpenReader \/ UNCHANGED <<status, call, delivered>>)
  <2> SUFFICES ASSUME StreamInv, [Next]_vars, stage = "replay", status \notin {"active", "succeeded"}
               PROVE  OpenReader \/ UNCHANGED <<status, call, delivered>>
    BY DEF Failed
  <2>1. call = "none"
    BY DEF StreamInv, ReadInv
  <2>2. ~Decode /\ ~SourceFails
    BY <2>1 DEF Decode, Fill, SourceFails, Take, Continue, Counted, Measured, Decoded, Ended,
                ProbeFinds, ProbeEnds, Returned, AtEnd
  <2>3. ~BeginPreflight /\ ~Revalidate /\ ~Read
    BY DEF BeginPreflight, Revalidate, Read
  <2>4. CASE Alter \/ RequestCancel \/ BeginStretch
    BY <2>4 DEF Alter, RequestCancel, BeginStretch, reader
  <2>5. CASE UNCHANGED vars
    BY <2>5 DEF vars, reader
  <2> QED
    BY <2>2, <2>3, <2>4, <2>5 DEF Next, Operation, Environment
<1> QED
  BY <1>1, StreamInvInit, StreamInvStep, PTL DEF Spec, FailureIsFinal

-----------------------------------------------------------------------------
(* The Compressed Input Budget.                                            *)

\* What a stretch has been charged beyond the cap and its own output, had the balance
\* been used up.
Overdraft == charged - mark.input + tokens - Cap - (credited - mark.output)

\* Once a check has been made in the stretch, that is worth no more than the extra
\* tokens of the output.  Before, the stretch is within one buffer of the last check.
EarnedInv ==
  charged > mark.input =>
    /\ mark.output <= credited
    /\ Rate * Overdraft + carried <= (credited - mark.output) + Rate - 1

LEMMA Monotone ==
  ASSUME NEW R \in Nat \ {0}, NEW a \in Int, NEW b \in Int, a <= b
  PROVE  R * a <= R * b
<1>1. b = a + (b - a) /\ b - a \in Nat
  OBVIOUS
<1>2. R * (a + (b - a)) = R * a + R * (b - a)
  OBVIOUS
<1>3. R * (b - a) >= 0
  BY <1>1
<1> QED
  BY <1>1, <1>2, <1>3

LEMMA Quotient ==
  ASSUME NEW R \in Nat \ {0}, NEW y \in Int, NEW w \in Nat, R * y <= w
  PROVE  y <= w \div R
<1>1. w \div R \in Nat /\ w = R * (w \div R) + (w % R) /\ w % R \in 0..(R - 1)
  OBVIOUS
<1>2. SUFFICES ASSUME y >= (w \div R) + 1 PROVE FALSE
  BY <1>1
<1>3. R * ((w \div R) + 1) <= R * y
  BY <1>1, <1>2, Monotone
<1>4. R * ((w \div R) + 1) = R * (w \div R) + R
  BY <1>1
<1> QED
  BY <1>1, <1>3, <1>4

\* The first check of a stretch, each later one, and what they come to.
LEMMA FirstCheck ==
  ASSUME NEW R \in Nat \ {0}, NEW d \in Int, NEW c \in Int, NEW w \in Nat, d <= 0, c <= R - 1
  PROVE  R * d + c <= w + R - 1
<1>1. R * d <= R * 0
  BY Monotone
<1> DEFINE x == R * d
<1>2. x \in Int /\ x <= 0
  BY <1>1
<1> HIDE DEF x
<1>3. x + c <= w + R - 1
  BY <1>2
<1> QED
  BY <1>3 DEF x

LEMMA LaterCheck ==
  ASSUME NEW R \in Nat \ {0}, NEW d \in Int, NEW d2 \in Int, NEW e \in Int, NEW c \in Int,
         NEW c2 \in Int, NEW w \in Int, NEW w2 \in Int,
         d2 <= d + e, R * e + c2 = c + (w2 - w), R * d + c <= w + R - 1
  PROVE  R * d2 + c2 <= w2 + R - 1
<1>1. d + e \in Int
  OBVIOUS
<1>2. R * d2 <= R * (d + e)
  BY <1>1, Monotone
<1>3. R * (d + e) = R * d + R * e
  OBVIOUS
<1> DEFINE x == R * d2
           y == R * d
           z == R * e
<1>4. x \in Int /\ y \in Int /\ z \in Int
  OBVIOUS
<1>5. x <= y + z /\ z + c2 = c + (w2 - w) /\ y + c <= w + R - 1
  BY <1>2, <1>3
<1> HIDE DEF x, y, z
<1>6. x + c2 <= w2 + R - 1
  BY <1>4, <1>5
<1> QED
  BY <1>6 DEF x

LEMMA AfterChecks ==
  ASSUME NEW R \in Nat \ {0}, NEW d \in Int, NEW c \in Nat, NEW w \in Int, NEW output \in Nat,
         w <= output, R * d + c <= w + R - 1
  PROVE  d <= (output + R - 1) \div R
<1> DEFINE x == R * d
<1>1. x \in Int /\ x + c <= w + R - 1
  OBVIOUS
<1> HIDE DEF x
<1>2. x <= output + R - 1 /\ output + R - 1 \in Nat
  BY <1>1
<1>3. R * d <= output + R - 1
  BY <1>2 DEF x
<1> QED
  BY <1>2, <1>3, Quotient

LEMMA EarnedStep == StreamInv /\ EarnedInv /\ [Next]_vars => EarnedInv'
<1> SUFFICES ASSUME StreamInv, EarnedInv, [Next]_vars PROVE EarnedInv'
  OBVIOUS
<1>1. CASE UNCHANGED <<budget, mark>>
  BY <1>1 DEF EarnedInv, Overdraft, budget
<1>2. CASE (Charge(consumed, produced) \/ Refuse(consumed, produced)) /\ UNCHANGED mark
  <2>1. /\ BudgetTypeOK /\ consumed \in Nat /\ produced \in Nat
        /\ charged <= consumed /\ credited <= produced
        /\ mark.input \in Nat /\ mark.output \in Nat /\ mark.output <= produced
    <3>1. produced \in Nat
      BY DecodeAssumption DEF StreamInv, TypeOK
    <3> QED
      BY <3>1 DEF StreamInv, TypeOK, MeterInv, ReadInv
  <2>2. /\ BudgetTypeOK' /\ credited' = produced /\ charged' \in {charged, consumed}
        /\ tokens' + charged' - charged <= Cap
        /\ \E e \in Nat : /\ Rate * e + carried' = carried + (produced - credited)
                          /\ tokens' + charged' - charged <= tokens + (produced - credited) + e
    BY <1>2, <2>1, MeterSteps
  <2>3. /\ {tokens, carried, credited, charged} \subseteq Int
        /\ {tokens', carried', credited', charged'} \subseteq Int
        /\ Cap \in Nat /\ Rate \in Nat \ {0} /\ carried' <= Rate - 1
        /\ mark' = mark /\ mark.input \in Int /\ mark.output \in Int
    BY <1>2, <2>1, <2>2, BudgetAssumption DEF BudgetTypeOK
  <2>4. Overdraft \in Int /\ Overdraft' \in Int
    BY <2>3 DEF Overdraft
  <2>5. mark.output <= credited'
    BY <2>1, <2>2
  <2>6. CASE charged <= mark.input
    <3>1. Overdraft' <= 0
      BY <2>2, <2>3, <2>5, <2>6 DEF Overdraft
    <3>2. credited' - mark.output \in Nat
      BY <2>3, <2>5
    <3>3. Rate * Overdraft' + carried' <= (credited' - mark.output) + Rate - 1
      BY <2>3, <2>4, <3>1, <3>2, FirstCheck
    <3> QED
      BY <2>3, <2>5, <3>3 DEF EarnedInv
  <2>7. CASE charged > mark.input
    <3>1. PICK e \in Nat : /\ Rate * e + carried' = carried + (produced - credited)
                           /\ tokens' + charged' - charged <= tokens + (produced - credited) + e
      BY <2>2
    <3>2. Overdraft' <= Overdraft + e
      BY <2>2, <2>3, <3>1 DEF Overdraft
    <3>3. Rate * Overdraft + carried <= (credited - mark.output) + Rate - 1
      BY <2>7 DEF EarnedInv
    <3> DEFINE w == credited - mark.output
               w2 == credited' - mark.output
    <3>4. w \in Int /\ w2 \in Int /\ produced - credited = w2 - w
      BY <2>2, <2>3
    <3>5. Rate * e + carried' = carried + (w2 - w) /\ Rate * Overdraft + carried <= w + Rate - 1
      BY <3>1, <3>3, <3>4
    <3> DEFINE d == Overdraft
               d2 == Overdraft'
               c == carried
               c2 == carried'
    <3>6. /\ Rate \in Nat \ {0} /\ e \in Nat
          /\ d \in Int /\ d2 \in Int /\ c \in Int /\ c2 \in Int /\ w \in Int /\ w2 \in Int
          /\ d2 <= d + e
          /\ Rate * e + c2 = c + (w2 - w) /\ Rate * d + c <= w + Rate - 1
      BY <2>3, <2>4, <3>2, <3>4, <3>5
    <3> HIDE DEF w, w2, d, d2, c, c2
    <3>7. Rate * d2 + c2 <= w2 + Rate - 1
      BY <3>6, LaterCheck
    <3> QED
      BY <2>3, <2>5, <3>7 DEF EarnedInv, w2, d2, c2
  <2> QED
    BY <2>3, <2>6, <2>7
<1>3. CASE BeginStretch \/ OpenReader
  <2>1. charged' <= mark'.input
    BY <1>3 DEF BeginStretch, OpenReader, Fresh, ResetBudget, budget, StreamInv, MeterInv
  <2>2. charged' \in Int /\ mark'.input \in Int
    BY StreamInvStep DEF StreamInv, MeterInv, BudgetTypeOK, TypeOK
  <2> QED
    BY <2>1, <2>2 DEF EarnedInv
<1> QED
  <2>1. CASE Fill \/ SourceFails
    BY <1>1, <1>2, <2>1 DEF Fill, SourceFails, history
  <2>2. CASE UNCHANGED vars \/ Take \/ Continue \/ Counted \/ Measured \/ Decoded \/ Ended
             \/ ProbeFinds \/ ProbeEnds \/ BeginPreflight \/ Revalidate \/ Read \/ Alter
             \/ RequestCancel
    BY <1>1, <2>2 DEF vars, Take, Continue, Counted, Measured, Decoded, Ended, ProbeFinds, ProbeEnds,
                      BeginPreflight, Revalidate, Read, Alter, RequestCancel, history
  <2> QED
    BY <1>3, <2>1, <2>2 DEF Next, Decode, Operation, Environment

\* No stretch of decoding consumes more than the cap, what its output earns and one
\* buffer, for any cap, rate and buffer, in Preflight and in every replay: past output
\* is never banked, and the fractions that are carried do not add up to more.
THEOREM DecodingIsBounded == Spec => []WorkIsBounded
<1>1. Init => EarnedInv
  BY DEF Init, NewBudget, EarnedInv
<1>2. StreamInv /\ EarnedInv => WorkIsBounded
  <2> SUFFICES ASSUME StreamInv, EarnedInv PROVE WorkIsBounded
    OBVIOUS
  <2> DEFINE output == produced - mark.output
             extra == (output + Rate - 1) \div Rate
  <2>1. /\ Cap \in Nat /\ Rate \in Nat \ {0} /\ Buffer \in Nat
        /\ consumed \in Nat /\ produced \in Nat /\ Len(buffer) \in Nat /\ cursor \in Nat
        /\ mark.input \in Nat /\ mark.output \in Nat /\ mark.output <= produced
        /\ tokens \in Nat /\ carried \in Nat /\ credited \in Nat /\ charged \in Nat
        /\ credited <= produced /\ cursor - charged <= Buffer /\ consumed <= cursor
    <3>1. produced \in Nat /\ Len(buffer) \in Nat
      BY DecodeAssumption DEF StreamInv, TypeOK
    <3> QED
      BY <3>1, DecodeAssumption, BudgetAssumption
         DEF StreamInv, TypeOK, MeterInv, ReadInv, BudgetTypeOK
  <2>2. output \in Nat /\ credited - mark.output \in Int /\ credited - mark.output <= output
    BY <2>1
  <2>3. extra \in Nat
    <3>1. output + Rate - 1 \in Nat
      BY <2>1, <2>2
    <3> HIDE DEF output
    <3> QED
      BY <2>1, <3>1
  <2> HIDE DEF extra
  <2>4. consumed - mark.input <= Cap + output + extra + Buffer
    <3>1. CASE charged <= mark.input
      <4> HIDE DEF output
      <4> QED
        BY <2>1, <2>2, <2>3, <3>1
    <3>2. CASE charged > mark.input
      <4>1. Rate * Overdraft + carried <= (credited - mark.output) + Rate - 1
        BY <3>2 DEF EarnedInv
      <4>a. {charged, mark.input, tokens, Cap, credited, mark.output} \subseteq Int
        BY <2>1
      <4>b. Overdraft \in Int
        BY <4>a DEF Overdraft
      <4>d. consumed \in Int /\ Buffer \in Int /\ tokens >= 0 /\ consumed <= charged + Buffer
        BY <2>1
      <4>c. consumed - mark.input <= Buffer + Overdraft + Cap + (credited - mark.output)
        BY <4>a, <4>d DEF Overdraft
      <4>2. Overdraft \in Int /\ consumed - mark.input <= Buffer + Overdraft + Cap + (credited - mark.output)
        BY <4>b, <4>c
      <4> DEFINE w == credited - mark.output
      <4>3. w \in Int /\ w <= output /\ Rate * Overdraft + carried <= w + Rate - 1
            /\ consumed - mark.input <= Buffer + Overdraft + Cap + w
        BY <2>2, <4>1, <4>2
      <4> HIDE DEF output, w
      <4>4. Overdraft <= extra
        BY <2>1, <2>2, <4>2, <4>3, AfterChecks DEF extra
      <4> QED
        BY <2>1, <2>2, <2>3, <4>2, <4>3, <4>4
    <3> QED
      BY <2>1, <3>1, <3>2
  <2> QED
    BY <2>4 DEF WorkIsBounded, extra
<1> QED
  BY <1>1, <1>2, EarnedStep, StreamInvInit, StreamInvStep, PTL DEF Spec

\* After a cancellation Preflight reads nothing more from the file.
PolledInv ==
  stage \in {"opened", "preflight"} /\ cancelled => cursor - asked <= Buffer

\* A cancelled Preflight consumes at most what is buffered, for any buffer.
THEOREM PreflightIsStopped == Spec => []CancelStopsPreflight
<1>1. Init => PolledInv
  BY DEF Init, PolledInv
<1>2. StreamInv /\ PolledInv /\ [Next]_vars => PolledInv'
  <2> SUFFICES ASSUME StreamInv, PolledInv, [Next]_vars PROVE PolledInv'
    OBVIOUS
  <2>1. CASE RequestCancel
    <3>1. cursor - consumed = Len(buffer) /\ Len(buffer) <= Buffer
      <4>1. Len(buffer) \in Nat
        BY DEF StreamInv, TypeOK
      <4> QED
        BY <4>1, DecodeAssumption DEF StreamInv, TypeOK, ReadInv
    <3> QED
      BY <2>1, <3>1 DEF RequestCancel, PolledInv, source
  <2>2. CASE Fill \/ SourceFails
    <3>1. CASE stage = "preflight" /\ cancelled
      BY <2>2, <3>1 DEF Fill, SourceFails, PolledInv, source, history, Fail
    <3>2. CASE ~(stage = "preflight" /\ cancelled)
      <4>1. call = "fill"
        BY <2>2 DEF Fill, SourceFails
      <4>2. stage # "opened"
        BY <4>1 DEF StreamInv, ReadInv
      <4>3. ~(stage' \in {"opened", "preflight"} /\ cancelled')
        BY <2>2, <3>2, <4>2 DEF Fill, SourceFails, Fail
      <4> QED
        BY <4>3 DEF PolledInv
    <3> QED
      BY <3>1, <3>2
  <2>3. CASE OpenReader
    BY <2>3 DEF OpenReader, PolledInv
  <2>4. CASE UNCHANGED vars \/ Take \/ Continue \/ Counted \/ Measured \/ Decoded \/ Ended
             \/ ProbeFinds \/ ProbeEnds \/ BeginPreflight \/ Revalidate \/ Read \/ Alter
             \/ BeginStretch
    <3>1. UNCHANGED <<cancelled, cursor, asked>>
      BY <2>4 DEF vars, source, history, Take, Continue, Counted, Measured, Decoded, Ended, ProbeFinds,
                  ProbeEnds, BeginPreflight, Revalidate, Read, Alter, BeginStretch
    <3>2. stage' \in {"opened", "preflight"} => stage \in {"opened", "preflight"}
      BY <2>4 DEF vars, Take, Continue, Counted, Measured, Decoded, Ended, ProbeFinds,
                  ProbeEnds, BeginPreflight, Revalidate, Read, Alter, BeginStretch, Fail
    <3> QED
      BY <3>1, <3>2 DEF PolledInv
  <2> QED
    BY <2>1, <2>2, <2>3, <2>4 DEF Next, Decode, Operation, Environment
<1>3. StreamInv /\ PolledInv => CancelStopsPreflight
  <2> SUFFICES ASSUME StreamInv, PolledInv, stage = "preflight", cancelled
               PROVE  consumed - asked <= Buffer
    BY DEF CancelStopsPreflight
  <2>1. consumed \in Nat /\ Len(buffer) \in Nat /\ consumed + Len(buffer) = cursor
        /\ asked \in Int /\ Buffer \in Nat
    BY DecodeAssumption DEF StreamInv, TypeOK
  <2>2. cursor - asked <= Buffer
    BY DEF PolledInv
  <2> QED
    BY <2>1, <2>2
<1> QED
  BY <1>1, <1>2, <1>3, StreamInvInit, StreamInvStep, PTL DEF Spec

-----------------------------------------------------------------------------
(* What a file decodes to: induction over its units.                       *)

\* Every non-empty set of numbers has a least one: induction, without a predicate for
\* a parameter.
LEMMA LeastNumber ==
  ASSUME NEW S \in SUBSET Nat, S # {}
  PROVE  \E n \in S : \A m \in S : n <= m
<1> DEFINE R == {p \in Nat \X Nat : p[1] < p[2]}
<1>1. IsWellFoundedOn(R, Nat)
  BY NatLessThanWellFounded, Zenon DEF OpToRel
<1>2. \A i, j \in Nat : i < j => <<i, j>> \in R
  OBVIOUS
<1> HIDE DEF R
<1>3. PICK n \in S : \A m \in S : ~(<<m, n>> \in R)
  BY <1>1, WFMin
<1>4. ASSUME NEW m \in S PROVE n <= m
  <2>1. n \in Nat /\ m \in Nat /\ ~(<<m, n>> \in R)
    BY <1>3
  <2>2. ~(m < n)
    BY <1>2, <2>1
  <2> QED
    BY <2>1, <2>2
<1> QED
  BY <1>4

\* What the units of a file bring forth adds up from unit to unit.
Totals(f, n) ==
  {t \in [0..n -> Nat] : t[0] = 0 /\ \A i \in 1..n : t[i] = t[i - 1] + f[i].out}

LEMMA TotalsExist ==
  ASSUME NEW f \in Seq(Units), NEW n \in 0..Len(f)
  PROVE  Totals(f, n) # {}
<1> DEFINE Bad == {k \in 0..Len(f) : Totals(f, k) = {}}
<1>0. Len(f) \in Nat /\ \A i \in 1..Len(f) : f[i].out \in Nat
  <2>1. \A i \in 1..Len(f) : f[i] \in Units
    OBVIOUS
  <2> QED
    BY <2>1 DEF Units
<1>1. SUFFICES ASSUME Bad # {} PROVE FALSE
  OBVIOUS
<1>2. Bad \in SUBSET Nat
  OBVIOUS
<1> HIDE DEF Bad
<1>3. PICK k \in Bad : \A m \in Bad : k <= m
  BY <1>1, <1>2, LeastNumber
<1>4. k \in 0..Len(f) /\ Totals(f, k) = {} /\ \A m \in 0..Len(f) : Totals(f, m) = {} => k <= m
  BY <1>3 DEF Bad
<1>5. CASE k = 0
  <2> DEFINE t == [i \in 0..0 |-> 0]
  <2>1. t \in Totals(f, 0)
    BY DEF Totals
  <2> QED
    BY <1>4, <1>5, <2>1
<1>6. CASE k # 0
  <2>1. k - 1 \in 0..Len(f) /\ k \in 1..Len(f) /\ k \in Nat
    BY <1>0, <1>4, <1>6
  <2>2. PICK s : s \in Totals(f, k - 1)
    BY <1>4, <2>1
  <2>3. /\ s \in [0..(k - 1) -> Nat] /\ s[0] = 0
        /\ \A i \in 1..(k - 1) : s[i] = s[i - 1] + f[i].out
    BY <2>2 DEF Totals
  <2> DEFINE t == [i \in 0..k |-> IF i = k THEN s[k - 1] + f[k].out ELSE s[i]]
  <2>4. t \in [0..k -> Nat]
    BY <1>0, <2>1, <2>3
  <2>5. t[0] = 0
    BY <2>1, <2>3
  <2>6. \A i \in 1..k : t[i] = t[i - 1] + f[i].out
    BY <2>1, <2>3
  <2>7. t \in Totals(f, k)
    BY <2>4, <2>5, <2>6 DEF Totals
  <2> QED
    BY <1>4, <2>7
<1> QED
  BY <1>5, <1>6

\* OutputOf is such a function.
LEMMA OutputAddsUp ==
  ASSUME NEW f \in Seq(Units)
  PROVE  /\ OutputOf(f) \in [0..Len(f) -> Nat]
         /\ OutputOf(f)[0] = 0
         /\ \A i \in 1..Len(f) : OutputOf(f)[i] = OutputOf(f)[i - 1] + f[i].out
<1> DEFINE Eq(t) == t = [i \in 0..Len(f) |-> IF i = 0 THEN 0 ELSE t[i - 1] + f[i].out]
<1>0. Len(f) \in Nat
  OBVIOUS
<1>1. PICK s : s \in Totals(f, Len(f))
  BY <1>0, TotalsExist
<1>2. /\ s \in [0..Len(f) -> Nat] /\ s[0] = 0
      /\ \A i \in 1..Len(f) : s[i] = s[i - 1] + f[i].out
  BY <1>1 DEF Totals
<1>3. Eq(s)
  BY <1>0, <1>2
<1>4. OutputOf(f) = CHOOSE t : Eq(t)
  BY DEF OutputOf
<1>5. Eq(OutputOf(f))
  BY <1>3, <1>4
<1> HIDE DEF Eq
<1>6. ASSUME NEW t, Eq(t) PROVE t = s
  <2> DEFINE Bad == {k \in 0..Len(f) : t[k] # s[k]}
  <2>1. /\ DOMAIN t = 0..Len(f) /\ t = [i \in DOMAIN t |-> t[i]] /\ t[0] = 0
        /\ \A i \in 1..Len(f) : t[i] = t[i - 1] + f[i].out
    BY <1>0, <1>6 DEF Eq
  <2>2. SUFFICES ASSUME Bad # {} PROVE FALSE
    BY <1>2, <2>1
  <2>3. Bad \in SUBSET Nat
    OBVIOUS
  <2> HIDE DEF Bad
  <2>4. PICK k \in Bad : \A m \in Bad : k <= m
    BY <2>2, <2>3, LeastNumber
  <2>5. k \in 0..Len(f) /\ t[k] # s[k] /\ \A m \in 0..Len(f) : t[m] # s[m] => k <= m
    BY <2>4 DEF Bad
  <2>6. k # 0
    BY <1>2, <2>1, <2>5
  <2>7. k \in 1..Len(f) /\ k - 1 \in 0..Len(f) /\ ~(k <= k - 1)
    BY <1>0, <2>5, <2>6
  <2>8. t[k - 1] = s[k - 1]
    BY <2>5, <2>7
  <2> QED
    BY <1>2, <2>1, <2>5, <2>7, <2>8
<1> QED
  BY <1>2, <1>5, <1>6

\* More units bring forth no less.
LEMMA OutputGrows ==
  ASSUME NEW f \in Seq(Units), NEW i \in 0..Len(f), NEW j \in 0..Len(f), i <= j
  PROVE  OutputOf(f)[i] <= OutputOf(f)[j]
<1> DEFINE o == OutputOf(f)
           Bad == {k \in i..Len(f) : ~(o[i] <= o[k])}
<1>1. /\ Len(f) \in Nat /\ o \in [0..Len(f) -> Nat]
      /\ \A k \in 1..Len(f) : f[k].out \in Nat /\ o[k] = o[k - 1] + f[k].out
  <2>1. \A k \in 1..Len(f) : f[k] \in Units
    OBVIOUS
  <2>2. Len(f) \in Nat /\ \A k \in 1..Len(f) : f[k].out \in Nat
    BY <2>1 DEF Units
  <2> QED
    BY <2>2, OutputAddsUp
<1>2. SUFFICES ASSUME Bad # {} PROVE FALSE
  BY <1>1
<1>3. Bad \in SUBSET Nat
  OBVIOUS
<1> HIDE DEF Bad, o
<1>4. PICK k \in Bad : \A m \in Bad : k <= m
  BY <1>2, <1>3, LeastNumber
<1>5. /\ k \in i..Len(f) /\ ~(o[i] <= o[k])
      /\ \A m \in i..Len(f) : ~(o[i] <= o[m]) => k <= m
  BY <1>4 DEF Bad
<1>6. k # i
  BY <1>1, <1>5
<1>7. k \in 1..Len(f) /\ k - 1 \in i..Len(f) /\ ~(k <= k - 1)
  BY <1>1, <1>5, <1>6
<1>8. o[i] <= o[k - 1]
  BY <1>5, <1>7
<1>9. o[k - 1] \in Nat /\ o[i] \in Nat /\ o[k] = o[k - 1] + f[k].out /\ f[k].out \in Nat
  <2>1. k - 1 \in 0..Len(f)
    BY <1>1, <1>7
  <2> QED
    BY <1>1, <1>7, <2>1
<1> QED
  BY <1>5, <1>8, <1>9

-----------------------------------------------------------------------------
(* What a decoder accepts.                                                 *)

\* The first n units of a file decode: none is refused, and each end closes units of
\* its own version only.
Sound(f, n) ==
  /\ \A i \in 1..n : f[i].kind \in {"data", "end"}
  /\ \A i \in 1..n : f[i].kind = "end" =>
       \A j \in 1..(i - 1) : (\A k \in j..(i - 1) : f[k].kind = "data") => f[j].of = f[i].of

\* Unit j belongs to the member that is open after the first n.
Begun(f, n, j) == j \in 1..n /\ \A k \in j..n : f[k].kind = "data"

\* What the decoder remembers of the open member.
Remembers(f, n, m) ==
  /\ m = "unstarted" => n = 0
  /\ m = "ended" => n > 0 /\ f[n].kind = "end"
  /\ m \in Versions => /\ n > 0 /\ f[n].kind = "data"
                       /\ \A j \in 1..n : Begun(f, n, j) => f[j].of = m
  /\ m = "mixed" => \E i, j \in 1..n : Begun(f, n, i) /\ Begun(f, n, j) /\ f[i].of # f[j].of

LEMMA DataIsSound ==
  ASSUME NEW f \in Seq(Units), NEW n \in Nat, n < Len(f),
         NEW m \in Versions \cup {"unstarted", "ended", "mixed"},
         Sound(f, n), Remembers(f, n, m), f[n + 1].kind = "data"
  PROVE  /\ Sound(f, n + 1)
         /\ Remembers(f, n + 1, IF m \in {"unstarted", "ended", f[n + 1].of} THEN f[n + 1].of
                                ELSE "mixed")
<1> DEFINE u == f[n + 1]
           m2 == IF m \in {"unstarted", "ended", u.of} THEN u.of ELSE "mixed"
<1>1. Len(f) \in Nat /\ n + 1 \in 1..Len(f) /\ u \in Units
  OBVIOUS
<1>2. u.of \in Versions
  BY <1>1 DEF Units
<1>3. \A i \in 1..(n + 1) : i \in 1..n \/ i = n + 1
  OBVIOUS
<1> HIDE DEF u, m2
<1>4. Sound(f, n + 1)
  <2>1. u.kind = "data" /\ u = f[n + 1]
    BY DEF u
  <2>2. \A i \in 1..(n + 1) : f[i].kind \in {"data", "end"}
    BY <1>3, <2>1 DEF Sound
  <2>3. \A i \in 1..(n + 1) : f[i].kind = "end" => i \in 1..n
    BY <1>3, <2>1
  <2>4. ASSUME NEW i \in 1..(n + 1), f[i].kind = "end", NEW j \in 1..(i - 1),
               \A k \in j..(i - 1) : f[k].kind = "data"
        PROVE  f[j].of = f[i].of
    <3>1. i \in 1..n
      BY <2>3, <2>4
    <3> QED
      BY <2>4, <3>1 DEF Sound
  <2> QED
    BY <2>2, <2>4, Zenon DEF Sound
<1> USE DEF u, m2
<1>5. \A j \in 1..n : Begun(f, n + 1, j) <=> Begun(f, n, j)
  BY <1>3 DEF Begun
<1>6. Begun(f, n + 1, n + 1)
  BY DEF Begun
<1> HIDE DEF u
<1>7. CASE m \in {"unstarted", "ended"}
  <2>1. m2 = u.of
    BY <1>7
  <2>2. \A j \in 1..n : ~Begun(f, n, j)
    BY <1>7 DEF Remembers, Begun
  <2>3. \A j \in 1..(n + 1) : Begun(f, n + 1, j) => f[j].of = u.of
    BY <1>3, <1>5, <2>2 DEF u
  <2> QED
    BY <1>2, <1>4, <2>1, <2>3 DEF Remembers, Versions, u
<1>8. CASE m = u.of
  <2>1. m2 = m /\ m \in Versions
    BY <1>2, <1>8
  <2>2. \A j \in 1..n : Begun(f, n, j) => f[j].of = m
    BY <2>1 DEF Remembers
  <2>3. \A j \in 1..(n + 1) : Begun(f, n + 1, j) => f[j].of = u.of
    BY <1>3, <1>5, <1>8, <2>2 DEF u
  <2> QED
    BY <1>2, <1>4, <1>8, <2>1, <2>3 DEF Remembers, Versions, u
<1>9. CASE m \in Versions /\ m # u.of
  <2>1. m2 = "mixed"
    BY <1>9 DEF Versions
  <2>2. n \in 1..n /\ Begun(f, n, n) /\ f[n].of = m
    BY <1>9 DEF Remembers, Begun
  <2>3. Begun(f, n + 1, n) /\ n \in 1..(n + 1) /\ n + 1 \in 1..(n + 1)
    BY <1>5, <2>2
  <2> QED
    BY <1>4, <1>6, <1>9, <2>1, <2>2, <2>3 DEF Remembers, Versions, u
<1>10. CASE m = "mixed"
  <2>1. m2 = "mixed"
    BY <1>2, <1>10 DEF Versions
  <2>2. PICK i \in 1..n, j \in 1..n : Begun(f, n, i) /\ Begun(f, n, j) /\ f[i].of # f[j].of
    BY <1>10 DEF Remembers
  <2>3. i \in 1..(n + 1) /\ j \in 1..(n + 1) /\ Begun(f, n + 1, i) /\ Begun(f, n + 1, j)
    BY <1>5, <2>2
  <2> QED
    BY <1>4, <2>1, <2>2, <2>3 DEF Remembers, Versions, u
<1> QED
  BY <1>7, <1>8, <1>9, <1>10

LEMMA EndIsSound ==
  ASSUME NEW f \in Seq(Units), NEW n \in Nat, n < Len(f),
         NEW m \in Versions \cup {"unstarted", "ended", "mixed"},
         Sound(f, n), Remembers(f, n, m), f[n + 1].kind = "end"
  PROVE  m \in {"unstarted", "ended", f[n + 1].of} <=> Sound(f, n + 1)
<1> DEFINE u == f[n + 1]
<1>1. Len(f) \in Nat /\ n + 1 \in 1..Len(f) /\ u \in Units
  OBVIOUS
<1>2. u.of \in Versions
  BY <1>1 DEF Units
<1>3. \A i \in 1..(n + 1) : i \in 1..n \/ i = n + 1
  OBVIOUS
<1>4. Sound(f, n + 1) <=> \A j \in 1..n : Begun(f, n, j) => f[j].of = u.of
  <2>1. \A j \in 1..n : Begun(f, n, j) <=> \A k \in j..n : f[k].kind = "data"
    BY DEF Begun
  <2>2. (n + 1) - 1 = n /\ n + 1 \in 1..(n + 1) /\ u = f[n + 1] /\ u.kind = "end"
    OBVIOUS
  <2> HIDE DEF u
  <2>3. ASSUME Sound(f, n + 1), NEW j \in 1..n, Begun(f, n, j)
        PROVE  f[j].of = u.of
    BY <2>1, <2>2, <2>3 DEF Sound
  <2>4. ASSUME \A j \in 1..n : Begun(f, n, j) => f[j].of = u.of
        PROVE  Sound(f, n + 1)
    <3>1. \A i \in 1..(n + 1) : f[i].kind \in {"data", "end"}
      BY <1>3, <2>2 DEF Sound
    <3>2. ASSUME NEW i \in 1..(n + 1), f[i].kind = "end", NEW j \in 1..(i - 1),
                 \A k \in j..(i - 1) : f[k].kind = "data"
          PROVE  f[j].of = f[i].of
      <4>1. CASE i \in 1..n
        BY <3>2, <4>1 DEF Sound
      <4>2. CASE i = n + 1
        BY <2>1, <2>2, <2>4, <3>2, <4>2
      <4> QED
        BY <1>3, <4>1, <4>2
    <3> QED
      BY <3>1, <3>2, Zenon DEF Sound
  <2> QED
    BY <2>3, <2>4
<1> HIDE DEF u
<1>5. CASE m \in {"unstarted", "ended"}
  BY <1>4, <1>5 DEF Remembers, Begun, u
<1>6. CASE m \in Versions
  <2>1. n \in 1..n /\ Begun(f, n, n) /\ f[n].of = m /\ \A j \in 1..n : Begun(f, n, j) => f[j].of = m
    BY <1>6 DEF Remembers, Begun
  <2> QED
    BY <1>4, <1>6, <2>1 DEF Versions, u
<1>7. CASE m = "mixed"
  <2>1. ~Sound(f, n + 1)
    BY <1>4, <1>7 DEF Remembers
  <2> QED
    BY <1>2, <1>7, <2>1 DEF Versions, u
<1> QED
  BY <1>5, <1>6, <1>7

\* A part of what decodes does too.
LEMMA SoundPrefix ==
  ASSUME NEW f, NEW n \in Nat, NEW k \in Nat, k <= n, Sound(f, n)
  PROVE  Sound(f, k)
BY DEF Sound

-----------------------------------------------------------------------------
(* What is prepared is intact, and decodes alike.                          *)

\* Of a file nobody has altered: what is buffered are its next units, input runs out
\* only at its end, and as long as nothing has failed what was taken decodes, and is
\* either returned or held.
Offers == \A i \in 1..Len(buffer) : buffer[i] = opened[consumed + i]
Holds ==
  /\ Sound(opened, consumed) /\ Remembers(opened, consumed, member)
  /\ produced + held = OutputOf(opened)[consumed]

ContentInv ==
  disk = opened =>
    /\ Offers
    /\ call = "eof" => consumed = compressedSize
    /\ ~Failed => Holds

\* What Preflight accepts, and what the write finds again.
Accepted ==
  Intact(opened) /\ Sound(opened, compressedSize) /\ logicalSize = TotalOut(opened)

AcceptedInv ==
  stage \in {"prepared", "replay"} \/ (stage = "measured" /\ disk = opened) => Accepted

\* A replay looks for the end exactly when all is produced, and an unaltered file fails
\* for nothing that its content could be blamed for.
EndingInv ==
  stage = "replay" =>
    /\ probing => produced = logicalSize
    /\ call # "none" /\ ~probing => produced < logicalSize
    /\ status = "succeeded" => delivered = logicalSize
    /\ Failed /\ disk = opened => status \in {"InputBudgetExceeded", "SourceIo", "DecoderFailure"}

LEMMA ContentInit == Init => ContentInv /\ AcceptedInv /\ EndingInv
<1> SUFFICES ASSUME Init PROVE ContentInv /\ AcceptedInv /\ EndingInv
  OBVIOUS
<1>1. opened \in Seq(Units) /\ OutputOf(opened)[0] = 0
  BY DecodeAssumption, OutputAddsUp DEF Init
<1>2. Sound(opened, 0) /\ Remembers(opened, 0, "unstarted")
  BY DEF Sound, Remembers, Versions
<1>3. Offers /\ Holds
  BY <1>1, <1>2 DEF Init, Offers, Holds
<1> QED
  BY <1>3 DEF Init, ContentInv, AcceptedInv, EndingInv

\* Steps that move nothing of the stream.
LEMMA ContentStays ==
  ASSUME ContentInv,
         UNCHANGED <<opened, disk, buffer, consumed, produced, held, member>>,
         call' = "eof" => call = "eof", ~Failed' => ~Failed
  PROVE  ContentInv'
<1>1. Offers => Offers'
  BY DEF Offers
<1>2. Holds => Holds'
  BY DEF Holds
<1> QED
  BY <1>1, <1>2 DEF ContentInv, compressedSize

LEMMA FillOffers == StreamInv /\ ContentInv /\ Fill => ContentInv'
<1> SUFFICES ASSUME StreamInv, ContentInv, Fill, disk = opened PROVE ContentInv'
  BY DEF Fill, file, ContentInv
<1>1. /\ consumed \in Nat /\ cursor \in Nat /\ cursor <= Len(opened) /\ Len(opened) \in Nat
      /\ Len(buffer) \in Nat /\ consumed + Len(buffer) = cursor /\ Buffer \in Nat \ {0}
      /\ opened \in Seq(Units) /\ buffer \in Seq(Units) /\ call = "fill" /\ status = "active"
  <2>1. opened \in Seq(Units) /\ buffer \in Seq(Units) /\ call = "fill"
    BY DecodeAssumption DEF StreamInv, TypeOK, Fill
  <2> QED
    BY <2>1, DecodeAssumption DEF StreamInv, TypeOK, ReadInv, compressedSize
<1>2. UNCHANGED <<opened, disk, consumed, produced, held, member>>
  BY DEF Fill, file, decoder
<1>3. CASE UNCHANGED source /\ call' \in {"none", "run"} /\ (status' = status \/ Failed')
  BY <1>1, <1>2, <1>3, ContentStays DEF source, Failed
<1>4. CASE buffer = <<>> /\ Refill /\ UNCHANGED status
  <2>1. /\ buffer' = Upcoming /\ consumed = cursor
        /\ call' = IF Upcoming = <<>> THEN "eof" ELSE "run"
    BY <1>1, <1>4 DEF Refill
  <2> DEFINE end == Smaller(cursor + Buffer, Len(opened))
  <2>2. Upcoming = SubSeq(opened, cursor + 1, end)
    BY <1>1 DEF Upcoming, End, compressedSize, Smaller
  <2>3. end \in Nat /\ end <= Len(opened) /\ (end <= cursor => cursor = Len(opened))
        /\ cursor <= end
    BY <1>1 DEF Smaller
  <2> HIDE DEF end
  <2>4. \A i \in 1..Len(Upcoming) : Upcoming[i] = opened[cursor + i]
    BY <1>1, <2>2, <2>3
  <2>5. Upcoming = <<>> => cursor = Len(opened)
    <3>1. Len(Upcoming) = end - cursor
      BY <1>1, <2>2, <2>3
    <3> QED
      BY <1>1, <2>3, <3>1
  <2>6. Offers'
    BY <1>2, <2>1, <2>4 DEF Offers
  <2>7. Holds => Holds'
    BY <1>2 DEF Holds
  <2>8. Holds
    BY <1>1 DEF ContentInv, Failed
  <2> QED
    BY <1>2, <2>1, <2>5, <2>6, <2>7, <2>8 DEF ContentInv, compressedSize
<1> QED
  BY <1>3, <1>4 DEF Fill, Fail, Refill, Failed

LEMMA TakeHolds == StreamInv /\ ContentInv /\ Take => ContentInv'
<1> SUFFICES ASSUME StreamInv, ContentInv, Take, disk = opened PROVE ContentInv'
  BY DEF Take, file, ContentInv
<1> DEFINE u == Head(buffer)
           n == consumed + 1
<1>1. /\ consumed \in Nat /\ n \in Nat /\ n - 1 = consumed /\ n \in 1..Len(opened)
      /\ Len(buffer) \in Nat \ {0} /\ held \in Nat /\ produced \in Nat
      /\ buffer \in Seq(Units) /\ opened \in Seq(Units) /\ call = "run" /\ status = "active"
      /\ member \in Versions \cup {"unstarted", "ended", "mixed"}
  <2>a. opened \in Seq(Units) /\ buffer \in Seq(Units) /\ call = "run" /\ buffer # <<>>
    BY DecodeAssumption DEF StreamInv, TypeOK, Take
  <2>1. /\ opened \in Seq(Units) /\ buffer \in Seq(Units) /\ call = "run" /\ Len(buffer) \in Nat \ {0}
        /\ Len(opened) \in Nat /\ Limit \in Nat
    BY <2>a, DecodeAssumption
  <2> QED
    BY <2>1, DecodeAssumption DEF StreamInv, TypeOK, ReadInv, compressedSize
<1>2. /\ UNCHANGED <<opened, disk, produced>> /\ buffer' = Tail(buffer) /\ consumed' = n
  BY DEF Take, file
<1>3. Offers /\ Holds
  BY <1>1 DEF ContentInv, Failed
<1>4. u = opened[n] /\ u \in Units /\ u.out \in Nat
  <2>1. u = buffer[1]
    BY <1>1
  <2>2. u = opened[n]
    BY <1>1, <1>3, <2>1 DEF Offers
  <2> QED
    BY <1>1, <2>1, <2>2 DEF Units
<1>5. Offers'
  <2>1. /\ Len(Tail(buffer)) = Len(buffer) - 1
        /\ \A i \in 1..(Len(buffer) - 1) : Tail(buffer)[i] = buffer[i + 1]
    BY <1>1
  <2>2. \A i \in 1..(Len(buffer) - 1) : buffer[i + 1] = opened[n + i]
    <3> SUFFICES ASSUME NEW i \in 1..(Len(buffer) - 1) PROVE buffer[i + 1] = opened[n + i]
      OBVIOUS
    <3>1. i + 1 \in 1..Len(buffer) /\ consumed + (i + 1) = n + i
      BY <1>1
    <3> QED
      BY <1>3, <3>1 DEF Offers
  <2> QED
    BY <1>2, <2>1, <2>2 DEF Offers
<1>6. OutputOf(opened)[n] = OutputOf(opened)[consumed] + u.out
      /\ OutputOf(opened)[consumed] = produced + held
  BY <1>1, <1>3, <1>4, OutputAddsUp DEF Holds
<1>7. Sound(opened, consumed) /\ Remembers(opened, consumed, member) /\ consumed < Len(opened)
  BY <1>1, <1>3 DEF Holds
<1> HIDE DEF u, n
<1>8. CASE u.kind = "data"
  <2> DEFINE m == IF member \in {"unstarted", "ended", u.of} THEN u.of ELSE "mixed"
  <2>1. held' = held + u.out /\ member' = m /\ UNCHANGED <<stage, status, call>>
    BY <1>8 DEF Take, u
  <2>2. Sound(opened, n) /\ Remembers(opened, n, m)
    BY <1>1, <1>4, <1>7, <1>8, DataIsSound DEF n
  <2> HIDE DEF m
  <2>3. produced + (held + u.out) = OutputOf(opened)[n]
    BY <1>1, <1>4, <1>6
  <2>4. Holds'
    BY <1>2, <2>1, <2>2, <2>3 DEF Holds
  <2> QED
    BY <1>1, <1>5, <2>1, <2>4 DEF ContentInv
<1>9. CASE u.kind = "end" /\ member \in {"unstarted", "ended", u.of}
  <2>1. member' = "ended" /\ call' \in {"run", "fill"} /\ UNCHANGED <<held, stage, status>>
    BY <1>9 DEF Take, u
  <2>2. Sound(opened, n)
    BY <1>1, <1>4, <1>7, <1>9, EndIsSound DEF n
  <2>3. Remembers(opened, n, "ended")
    BY <1>1, <1>4, <1>9 DEF Remembers, Versions
  <2>4. OutputOf(opened)[n] = produced + held
    <3>1. u.out = 0
      BY <1>4, <1>9 DEF Units
    <3> QED
      BY <1>1, <1>6, <3>1
  <2>5. Holds'
    BY <1>2, <2>1, <2>2, <2>3, <2>4 DEF Holds
  <2> QED
    BY <1>5, <2>1, <2>5 DEF ContentInv
<1>10. CASE u.kind = "end" /\ member \notin {"unstarted", "ended", u.of}
  <2>1. call' = "none" /\ status' = "Corrupt"
    BY <1>10 DEF Take, Fail, u
  <2> QED
    BY <1>5, <2>1 DEF ContentInv, Failed
<1>11. CASE u.kind \notin {"data", "end"}
  <2>1. call' = "none" /\ status' \in Reports
    BY <1>4, <1>11 DEF Take, Fail, Units, u
  <2> QED
    BY <1>5, <2>1 DEF ContentInv, Failed, Reports
<1> QED
  BY <1>8, <1>9, <1>10, <1>11

LEMMA OutputHolds == StreamInv /\ ContentInv /\ (Counted \/ Decoded \/ ProbeFinds) => ContentInv'
<1> SUFFICES ASSUME StreamInv, ContentInv, Counted \/ Decoded \/ ProbeFinds, disk = opened
             PROVE  ContentInv'
  BY DEF Counted, Decoded, ProbeFinds, file, ContentInv
<1> DEFINE k == Smaller(held, room)
<1>1. /\ held \in Nat /\ room \in Nat /\ produced \in Nat /\ k \in Nat /\ k <= held
      /\ status = "active"
  <2>1. held \in Nat /\ room \in Nat /\ produced \in Nat
    BY DecodeAssumption DEF StreamInv, TypeOK
  <2>2. status = "active"
    BY DEF StreamInv, ReadInv, Counted, Decoded, ProbeFinds, Returned
  <2> QED
    BY <2>1, <2>2 DEF Smaller
<1>2. UNCHANGED <<opened, disk, buffer, consumed, member>> /\ held' = held - k
      /\ call' \in {"none", "fill"}
  BY DEF Counted, Decoded, ProbeFinds, Fail, file, source
<1>3. Offers /\ Holds
  BY <1>1 DEF ContentInv, Failed
<1>4. Offers'
  BY <1>2, <1>3 DEF Offers
<1>5. Failed' \/ produced' = produced + k
  BY DEF Counted, Decoded, ProbeFinds, Fail, Failed
<1> HIDE DEF k
<1>6. ASSUME produced' = produced + k PROVE Holds'
  <2>1. produced' + held' = produced + held
    BY <1>1, <1>2, <1>6
  <2>2. /\ Sound(opened, consumed) /\ Remembers(opened, consumed, member)
        /\ produced + held = OutputOf(opened)[consumed]
    BY <1>3 DEF Holds
  <2> QED
    BY <1>2, <2>1, <2>2 DEF Holds
<1> QED
  BY <1>2, <1>4, <1>5, <1>6 DEF ContentInv

LEMMA ContentStep == StreamInv /\ ContentInv /\ [Next]_vars => ContentInv'
<1> SUFFICES ASSUME StreamInv, ContentInv, [Next]_vars PROVE ContentInv'
  OBVIOUS
<1>1. CASE Alter
  <2>1. disk' # opened'
    BY <1>1, DecodeAssumption DEF Alter, StreamInv, TypeOK
  <2> QED
    BY <2>1 DEF ContentInv
<1>2. CASE OpenReader
  <2>1. /\ UNCHANGED <<opened, disk, call>> /\ call = "none" /\ buffer' = <<>> /\ consumed' = 0
        /\ produced' = 0 /\ held' = 0 /\ member' = "unstarted"
    BY <1>2 DEF OpenReader, Fresh, file
  <2>2. opened \in Seq(Units)
    BY DecodeAssumption DEF StreamInv, TypeOK
  <2>3. OutputOf(opened)[0] = 0
    BY <2>2, OutputAddsUp
  <2>4. Sound(opened, 0) /\ Remembers(opened, 0, "unstarted")
    BY DEF Sound, Remembers, Versions
  <2>5. Offers'
    BY <2>1 DEF Offers
  <2>6. Holds'
    BY <2>1, <2>3, <2>4 DEF Holds
  <2> QED
    BY <2>1, <2>5, <2>6 DEF ContentInv
<1>3. CASE UNCHANGED vars \/ Continue \/ Measured \/ Ended \/ ProbeEnds \/ SourceFails
           \/ BeginPreflight \/ Revalidate \/ Read \/ RequestCancel \/ BeginStretch
  <2>1. /\ UNCHANGED <<opened, disk, buffer, consumed, produced, held, member>>
        /\ call' \in {call, "none", "fill"}
    BY <1>3 DEF vars, file, source, decoder, reader, Continue, Measured, Ended, ProbeEnds,
                SourceFails, BeginPreflight, Revalidate, Read, RequestCancel, BeginStretch, Fail
  <2>2. ~Failed' => ~Failed
    <3>1. CASE UNCHANGED status
      BY <3>1 DEF Failed
    <3>2. CASE call # "none"
      BY <3>2 DEF StreamInv, ReadInv, Failed
    <3>3. CASE BeginPreflight \/ Revalidate
      BY <3>3 DEF BeginPreflight, Revalidate, Failed
    <3> QED
      BY <1>3, <3>1, <3>2, <3>3 DEF vars, reader, Continue, Measured, Ended, ProbeEnds, SourceFails,
                                    Read, RequestCancel, BeginStretch, AtEnd
  <2> QED
    BY <2>1, <2>2, ContentStays
<1> QED
  BY <1>1, <1>2, <1>3, FillOffers, TakeHolds, OutputHolds
     DEF Next, Decode, Operation, Environment

\* At the end of an unaltered file's input the decoder has taken all of it, and a member
\* that is not open has ended.
LEMMA InputEnds ==
  ASSUME StreamInv, ContentInv, disk = opened, AtEnd
  PROVE  /\ consumed = compressedSize /\ produced = TotalOut(opened)
         /\ Sound(opened, compressedSize)
         /\ member = "ended" => Intact(opened)
         /\ Intact(opened) => member = "ended"
<1>1. /\ opened \in Seq(Units) /\ Len(opened) \in Nat /\ compressedSize = Len(opened)
      /\ produced \in Nat /\ held = 0 /\ call = "eof" /\ status = "active"
      /\ member \in Versions \cup {"unstarted", "ended", "mixed"}
  <2>1. opened \in Seq(Units) /\ produced \in Nat /\ held = 0 /\ call = "eof"
    BY DecodeAssumption DEF StreamInv, TypeOK, AtEnd
  <2> QED
    BY <2>1 DEF StreamInv, TypeOK, ReadInv, compressedSize
<1>2. consumed = compressedSize /\ Holds
  BY <1>1 DEF ContentInv, Failed
<1>3. Sound(opened, compressedSize) /\ Remembers(opened, compressedSize, member)
  BY <1>2 DEF Holds
<1>4. produced = TotalOut(opened)
  BY <1>1, <1>2 DEF Holds, TotalOut
<1>5. DOMAIN opened = 1..Len(opened) /\ (opened # <<>> <=> Len(opened) > 0)
  BY <1>1
<1>6. member = "ended" => Intact(opened)
  BY <1>1, <1>3, <1>5 DEF Intact, Sound, Remembers
<1>7. ASSUME Intact(opened) PROVE member = "ended"
  <2>1. opened[Len(opened)].kind = "end" /\ Len(opened) \in 1..Len(opened)
    BY <1>1, <1>5, <1>7 DEF Intact
  <2>2. member # "unstarted" /\ member \notin Versions
    BY <1>1, <1>3, <2>1 DEF Remembers
  <2>3. member # "mixed"
    BY <1>1, <1>3, <2>1 DEF Remembers, Begun
  <2> QED
    BY <1>1, <2>2, <2>3
<1> QED
  BY <1>2, <1>3, <1>4, <1>6, <1>7

\* Preflight accepts a file that decodes whole; one that was altered meanwhile is found out.
LEMMA AcceptedStep == StreamInv /\ ContentInv /\ AcceptedInv /\ [Next]_vars => AcceptedInv'
<1> SUFFICES ASSUME StreamInv, ContentInv, AcceptedInv, [Next]_vars PROVE AcceptedInv'
  OBVIOUS
<1>1. UNCHANGED <<opened, logicalSize>> /\ Accepted => Accepted'
  BY DEF Accepted, compressedSize
<1>2. CASE Measured
  <2>1. CASE stage' = "measured"
    <3>1. /\ logicalSize' = produced /\ UNCHANGED <<opened, disk>>
          /\ AtEnd /\ member = "ended" /\ stage = "preflight"
      BY <1>2, <2>1 DEF Measured, Fail, file
    <3>2. ASSUME disk' = opened' PROVE Accepted'
      <4>1. /\ produced = TotalOut(opened) /\ Intact(opened)
            /\ Sound(opened, compressedSize)
        BY <3>1, <3>2, InputEnds
      <4> QED
        BY <3>1, <4>1 DEF Accepted, compressedSize
    <3> QED
      BY <2>1, <3>2 DEF AcceptedInv
  <2>2. CASE stage' # "measured"
    BY <1>2, <2>2 DEF Measured, Fail, AcceptedInv
  <2> QED
    BY <2>1, <2>2
<1>3. CASE ~Measured
  <2>1. UNCHANGED <<opened, logicalSize>>
    BY <1>3 DEF Next, Decode, Operation, Environment, vars, file, Fill, Take, Continue, Counted,
                Decoded, Ended, ProbeFinds, ProbeEnds, BeginPreflight, Revalidate, OpenReader,
                Read, SourceFails, Alter, RequestCancel, BeginStretch
  <2>2. disk' = opened' => disk = opened
    <3>1. CASE Alter
      BY <3>1, DecodeAssumption DEF Alter, StreamInv, TypeOK
    <3>2. CASE ~Alter
      BY <1>3, <3>2 DEF Next, Decode, Operation, Environment, vars, file, Fill, Take, Continue,
                Counted, Decoded, Ended, ProbeFinds, ProbeEnds, BeginPreflight, Revalidate,
                OpenReader, Read, SourceFails, RequestCancel, BeginStretch
    <3> QED
      BY <3>1, <3>2
  <2>3. \/ stage' = stage \/ stage' \in {"refused", "preflight"}
        \/ stage = "measured" /\ disk = opened /\ stage' = "prepared"
        \/ stage \in {"prepared", "replay"} /\ stage' = "replay"
    BY <1>3 DEF Next, Decode, Operation, Environment, vars, Fill, Take, Continue, Counted,
                Decoded, Ended, ProbeFinds, ProbeEnds, BeginPreflight, Revalidate, OpenReader,
                Read, SourceFails, Alter, RequestCancel, BeginStretch, Fail, reader
  <2> QED
    BY <1>1, <2>1, <2>2, <2>3 DEF AcceptedInv
<1> QED
  BY <1>2, <1>3

\* An unaltered file that was accepted is not refused for one of its units.
LEMMA AcceptedIsTaken ==
  ASSUME StreamInv, ContentInv, Accepted, disk = opened, Take
  PROVE  UNCHANGED status
<1> DEFINE u == Head(buffer)
           n == consumed + 1
<1>1. /\ consumed \in Nat /\ n \in Nat /\ n \in 1..Len(opened) /\ Len(opened) \in Nat
      /\ Len(buffer) \in Nat \ {0} /\ buffer \in Seq(Units) /\ opened \in Seq(Units)
      /\ status = "active" /\ member \in Versions \cup {"unstarted", "ended", "mixed"}
  <2>1. opened \in Seq(Units) /\ buffer \in Seq(Units) /\ call = "run" /\ buffer # <<>>
    BY DecodeAssumption DEF StreamInv, TypeOK, Take
  <2>2. Len(opened) \in Nat /\ Len(buffer) \in Nat \ {0}
    BY <2>1
  <2> QED
    BY <2>1, <2>2 DEF StreamInv, TypeOK, ReadInv, compressedSize
<1>2. Offers /\ Holds
  BY <1>1 DEF ContentInv, Failed
<1>3. u = opened[n]
  <2>1. u = buffer[1] /\ 1 \in 1..Len(buffer)
    BY <1>1
  <2> QED
    BY <1>2, <2>1 DEF Offers
<1>4. Sound(opened, n)
  BY <1>1, SoundPrefix DEF Accepted, compressedSize
<1>5. u.kind \in {"data", "end"}
  BY <1>1, <1>3, <1>4 DEF Sound
<1>6. u.kind = "end" => member \in {"unstarted", "ended", u.of}
  <2>1. Sound(opened, consumed) /\ Remembers(opened, consumed, member) /\ consumed < Len(opened)
    BY <1>1, <1>2 DEF Holds
  <2> QED
    BY <1>1, <1>3, <1>4, <2>1, EndIsSound
<1> HIDE DEF u, n
<1> QED
  BY <1>5, <1>6 DEF Take, u

\* Nothing is left over of an unaltered file whose output was all produced.
LEMMA NothingIsLeft ==
  ASSUME StreamInv, ContentInv, Accepted, disk = opened, ~Failed, produced = logicalSize
  PROVE  held = 0
<1>1. /\ opened \in Seq(Units) /\ Len(opened) \in Nat /\ consumed \in 0..Len(opened)
      /\ produced \in Nat /\ held \in Nat
  <2>1. opened \in Seq(Units) /\ Len(buffer) \in Nat /\ produced \in Nat
    BY DecodeAssumption DEF StreamInv, TypeOK
  <2> QED
    BY <2>1 DEF StreamInv, TypeOK, compressedSize
<1>2. produced + held = OutputOf(opened)[consumed]
  BY DEF ContentInv, Holds
<1>3. OutputOf(opened)[consumed] <= OutputOf(opened)[Len(opened)]
  BY <1>1, OutputGrows
<1>4. produced = OutputOf(opened)[Len(opened)]
  BY DEF Accepted, TotalOut
<1> QED
  BY <1>1, <1>2, <1>3, <1>4

LEMMA EndingStep ==
  StreamInv /\ ContentInv /\ AcceptedInv /\ EndingInv /\ [Next]_vars => EndingInv'
<1> SUFFICES ASSUME StreamInv, ContentInv, AcceptedInv, EndingInv, [Next]_vars PROVE EndingInv'
  OBVIOUS
<1> USE DEF EndingInv
<1>1. CASE UNCHANGED vars \/ Alter \/ RequestCancel \/ BeginStretch
  <2>1. UNCHANGED <<stage, probing, produced, logicalSize, call, status, delivered>>
    BY <1>1 DEF vars, reader, Alter, RequestCancel, BeginStretch
  <2>2. disk' = opened' => disk = opened
    BY <1>1, DecodeAssumption
       DEF vars, file, Alter, RequestCancel, BeginStretch, StreamInv, TypeOK
  <2> QED
    BY <2>1, <2>2 DEF Failed
<1>2. CASE BeginPreflight \/ Revalidate \/ Counted \/ Measured
  <2>1. stage' # "replay"
    BY <1>2 DEF BeginPreflight, Revalidate, Counted, Measured, Fail
  <2> QED
    BY <2>1
<1>3. CASE OpenReader
  <2>1. call' = "none" /\ probing' = FALSE /\ status' \in {"active", "DecoderFailure"}
    BY <1>3 DEF OpenReader, Fresh
  <2> QED
    BY <2>1 DEF Failed
<1>4. CASE Read
  <2>1. /\ UNCHANGED <<stage, status, produced, logicalSize>> /\ status = "active"
        /\ stage = "replay" /\ (probing' <=> Remaining = 0)
    BY <1>4 DEF Read
  <2>2. produced \in Nat /\ logicalSize \in Nat /\ produced <= logicalSize
    BY <2>1, DecodeAssumption DEF StreamInv, TypeOK, ReadInv
  <2>3. (probing' => produced = logicalSize) /\ (~probing' => produced < logicalSize)
    BY <2>1, <2>2 DEF Remaining
  <2> QED
    BY <2>1, <2>3 DEF Failed
<1> SUFFICES ASSUME stage = "replay", call # "none", Decode \/ SourceFails PROVE EndingInv'
  <2>1. Fill \/ SourceFails \/ Take \/ Continue \/ Decoded \/ Ended \/ ProbeFinds \/ ProbeEnds
        => call # "none" /\ (stage' = "replay" => stage = "replay")
    BY DEF Fill, SourceFails, Take, Continue, Decoded, Ended, ProbeFinds, ProbeEnds, Returned, AtEnd,
           Fail
  <2> QED
    BY <1>1, <1>2, <1>3, <1>4, <2>1 DEF Next, Decode, Operation, Environment
<1>5. /\ status = "active" /\ Accepted /\ produced \in Nat /\ logicalSize \in Nat
      /\ produced <= logicalSize
  BY DecodeAssumption DEF StreamInv, TypeOK, ReadInv, AcceptedInv
<1>6. CASE Fill \/ SourceFails
  <2>1. /\ UNCHANGED <<produced, logicalSize, probing, delivered>>
        /\ UNCHANGED status \/ status' \in {"InputBudgetExceeded", "SourceIo"}
    BY <1>6 DEF Fill, SourceFails, Fail
  <2> QED
    BY <1>5, <2>1 DEF Failed
<1>7. CASE Take
  <2>1. UNCHANGED <<opened, disk, produced, logicalSize, probing, delivered>>
    BY <1>7 DEF Take, file
  <2>2. disk = opened => UNCHANGED status
    BY <1>5, <1>7, AcceptedIsTaken
  <2>3. status' # "succeeded"
    <3>1. Head(buffer) \in Units
      BY <1>7, TakenUnit DEF Take, StreamInv, TypeOK
    <3>2. Head(buffer).kind \in {"data", "end"} \cup Reports
      BY <3>1 DEF Units
    <3> QED
      BY <1>5, <1>7, <3>2 DEF Take, Fail, Reports
  <2> QED
    BY <1>5, <2>1, <2>2, <2>3 DEF Failed
<1>8. CASE Continue
  BY <1>5, <1>8 DEF Continue, reader, Failed
<1>9. CASE Decoded
  <2>1. /\ UNCHANGED <<stage, status, logicalSize>> /\ ~probing
        /\ \/ probing' = TRUE /\ produced' = logicalSize
           \/ probing' = probing /\ call' = "none"
    BY <1>9 DEF Decoded
  <2> QED
    BY <1>5, <2>1 DEF Failed
<1>10. CASE Ended
  <2>1. /\ UNCHANGED <<opened, disk, produced, logicalSize, probing>> /\ call' = "none"
        /\ ~probing /\ AtEnd /\ status' \in {"EndedEarly", "Incomplete"}
    BY <1>10 DEF Ended, Fail, file
  <2>2. disk # opened
    BY <1>5, <2>1, InputEnds DEF Accepted
  <2> QED
    BY <2>1, <2>2
<1>11. CASE ProbeFinds
  <2>1. /\ UNCHANGED <<opened, disk, produced, logicalSize, probing>> /\ call' = "none"
        /\ probing /\ held # 0 /\ status' = "LogicalSizeExceeded"
    <3>1. held > 0 /\ held \in Nat
      BY <1>11 DEF ProbeFinds, Returned, StreamInv, TypeOK
    <3> QED
      BY <1>11, <3>1 DEF ProbeFinds, Fail, file
  <2>2. disk # opened
    BY <1>5, <2>1, NothingIsLeft DEF Failed
  <2> QED
    BY <2>1, <2>2
<1>12. CASE ProbeEnds
  <2>1. /\ UNCHANGED <<opened, disk, produced, logicalSize, probing>> /\ call' = "none"
        /\ probing /\ AtEnd /\ produced = logicalSize
    BY <1>12 DEF ProbeEnds, Fail, file
  <2>2. CASE member = "ended" /\ consumed = compressedSize
    BY <1>12, <2>1, <2>2 DEF ProbeEnds, Fail, Failed
  <2>3. CASE ~(member = "ended" /\ consumed = compressedSize)
    <3>1. disk # opened
      BY <1>5, <2>1, <2>3, InputEnds DEF Accepted
    <3>2. status' \in {"Incomplete", "InputNotFullyConsumed"}
      BY <1>12, <2>3 DEF ProbeEnds, Fail
    <3> QED
      BY <2>1, <3>1, <3>2
  <2> QED
    BY <2>2, <2>3
<1> QED
  BY <1>2, <1>6, <1>7, <1>8, <1>9, <1>10, <1>11, <1>12 DEF Decode

ReplayInv == StreamInv /\ ContentInv /\ AcceptedInv /\ EndingInv

LEMMA ReplayInvAlways == Spec => []ReplayInv
<1>1. Init => ReplayInv
  BY StreamInvInit, ContentInit DEF ReplayInv
<1>2. ReplayInv /\ [Next]_vars => ReplayInv'
  BY StreamInvStep, ContentStep, AcceptedStep, EndingStep DEF ReplayInv
<1> QED
  BY <1>1, <1>2, PTL DEF Spec

\* Only a file that is intact from its first unit to its last is handed to the write,
\* with the size that all its units add up to, for files of any length and any way to
\* alter them while Preflight reads (preflight_stream, prepare_compressed_image).
THEOREM PreparedFilesAreIntact == Spec => []PreparedIsIntact
<1>1. ReplayInv => PreparedIsIntact
  BY DecodeAssumption DEF ReplayInv, StreamInv, TypeOK, AcceptedInv, Accepted, PreparedIsIntact
<1> QED
  BY <1>1, ReplayInvAlways, PTL

\* What Preflight accepted decodes the same in every replay, however its callers divide
\* it into reads: an unaltered file can fail for the budget, the disk it is read from or
\* the setting up of the decoder alone.
THEOREM UnalteredFilesDecodeAlike == Spec => []UnalteredDecodesAlike
<1>1. ReplayInv => UnalteredDecodesAlike
  BY DEF ReplayInv, EndingInv, UnalteredDecodesAlike
<1> QED
  BY <1>1, ReplayInvAlways, PTL

-----------------------------------------------------------------------------
(* The promise to those who write and verify the image.                    *)

Promised == [Replay!ReplayNext]_(Replay!replayVars)

LEMMA NoticesNothing ==
  ASSUME UNCHANGED <<Opened, Size, Given, ReaderEnd>>
  PROVE  Promised
  BY DEF Promised, Replay!replayVars

\* What was opened is looked at once; no step changes it.
LEMMA OpenedStays ==
  ASSUME [Next]_vars
  PROVE  UNCHANGED Opened
<1>1. UNCHANGED opened
  BY DEF Next, Decode, Operation, Environment, vars, file, Fill, Take, Continue, Counted, Measured,
         Decoded, Ended, ProbeFinds, ProbeEnds, BeginPreflight, Revalidate, OpenReader, Read,
         SourceFails, Alter, RequestCancel, BeginStretch
<1> QED
  BY <1>1 DEF Opened

\* Before there is an image its users see nothing of what is done.
LEMMA BeforeTheImage ==
  ASSUME [Next]_vars, ~Prepared, ~Prepared'
  PROVE  Promised
<1>1. UNCHANGED <<Size, Given, ReaderEnd>>
  BY DEF Prepared, Size, Given, ReaderEnd
<1> QED
  BY <1>1, OpenedStays, NoticesNothing

\* It is handed out with the size that the file really decodes to.
LEMMA TheImageIsHandedOut ==
  ASSUME ReplayInv, [Next]_vars, ~Prepared, Prepared'
  PROVE  Promised
<1>1. Revalidate
  BY DEF Prepared, Next, Decode, Operation, Environment, vars, reader, Fill, Take, Continue, Counted,
         Measured, Decoded, Ended, ProbeFinds, ProbeEnds, BeginPreflight, OpenReader, Read,
         SourceFails, Alter, RequestCancel, BeginStretch, Fail, Returned, AtEnd
<1>2. /\ stage = "measured" /\ stage' = "prepared" /\ disk = opened /\ UNCHANGED logicalSize
  BY <1>1 DEF Revalidate, Prepared
<1>3. Accepted
  BY <1>2 DEF ReplayInv, AcceptedInv
<1>4. Opened.intact /\ Size' = Opened.size
  BY <1>2, <1>3 DEF Accepted, Opened, Size, Prepared
<1>5. /\ ReaderEnd = "none" /\ ReaderEnd' = "closed"
      /\ UNCHANGED Given
  BY <1>2 DEF ReaderEnd, Prepared, Given
<1> QED
  BY <1>4, <1>5, OpenedStays DEF Promised, Replay!ReplayNext, Replay!Prepare

LEMMA TheImageStays ==
  ASSUME [Next]_vars, Prepared
  PROVE  Prepared' /\ UNCHANGED <<Opened, logicalSize, Size>>
<1>1. Prepared' /\ UNCHANGED logicalSize
  BY DEF Prepared, Next, Decode, Operation, Environment, vars, reader, Fill, Take, Continue, Counted,
         Measured, Decoded, Ended, ProbeFinds, ProbeEnds, BeginPreflight, Revalidate, OpenReader,
         Read, SourceFails, Alter, RequestCancel, BeginStretch, Fail, Returned, AtEnd
<1> QED
  BY <1>1, OpenedStays DEF Size

LEMMA AReaderBegins ==
  ASSUME [Next]_vars, OpenReader
  PROVE  Promised
<1>1. Prepared /\ stage' = "replay" /\ status' \in {"active", "DecoderFailure"} /\ delivered' = 0
  BY DEF OpenReader, Prepared, Fresh
<1>2. Given' = 0 /\ ReaderEnd' \in {"open", "failed"} /\ ReaderEnd # "none"
  BY <1>1 DEF Given, ReaderEnd, Prepared
<1> QED
  BY <1>1, <1>2, TheImageStays DEF Promised, Replay!ReplayNext, Replay!Begin

\* A read that fails breaks the reader off; it had given what it had.
LEMMA AReaderBreaks ==
  ASSUME [Next]_vars, stage = "replay", stage' = "replay", status = "active", Failed',
         UNCHANGED delivered
  PROVE  Promised
<1>1. ReaderEnd = "open" /\ ReaderEnd' = "failed" /\ UNCHANGED Given
  BY DEF ReaderEnd, Prepared, Given, Failed
<1> QED
  BY <1>1, TheImageStays DEF Prepared, Promised, Replay!ReplayNext, Replay!Break

\* Whatever a read yields, the last byte comes with the verified end only.
LEMMA AReaderGives ==
  ASSUME ReplayInv, Decoded
  PROVE  Promised
<1>1. /\ stage = "replay" /\ stage' = "replay" /\ status = "active" /\ status' = "active"
      /\ call # "none" /\ ~probing /\ UNCHANGED logicalSize
  BY DEF Decoded, Returned, ReplayInv, StreamInv, ReadInv
<1>2. [Next]_vars
  BY DEF Next, Decode
<1>3. ReaderEnd = "open" /\ ReaderEnd' = "open"
  BY <1>1 DEF ReaderEnd, Prepared
<1>4. CASE UNCHANGED delivered
  <2>1. UNCHANGED Given
    BY <1>1, <1>4 DEF Given
  <2> QED
    BY <1>1, <1>2, <1>3, <2>1, TheImageStays, NoticesNothing DEF Prepared
<1>5. CASE delivered' # delivered
  <2> DEFINE n == Smaller(held, room)
  <2>1. delivered' = produced + n /\ produced + n # logicalSize
    BY <1>5 DEF Decoded
  <2>2. /\ held \in Nat /\ held > 0 /\ room \in Nat /\ produced \in Nat /\ logicalSize \in Nat
        /\ delivered \in 0..produced /\ produced < logicalSize /\ room <= logicalSize - produced
    BY <1>1, DecodeAssumption
    DEF Decoded, Returned, ReplayInv, StreamInv, TypeOK, ReadInv, EndingInv
  <2>3. n \in Nat /\ n <= room
    BY <2>2 DEF Smaller
  <2>4. /\ delivered' \in Nat /\ delivered' >= delivered /\ delivered' <= logicalSize - 1
    BY <2>1, <2>2, <2>3
  <2>5. delivered' \in delivered + 1 .. logicalSize - 1
    BY <1>5, <2>2, <2>4
  <2>6. Given = delivered /\ Given' = delivered' /\ Size = logicalSize
    BY <1>1 DEF Given, Size, Prepared
  <2>7. Given' \in Given + 1 .. Size - 1
    BY <2>5, <2>6
  <2>8. UNCHANGED <<Opened, Size>>
    BY <1>1, <1>2, TheImageStays DEF Prepared
  <2> QED
    BY <1>3, <2>7, <2>8 DEF Promised, Replay!ReplayNext, Replay!Give
<1> QED
  BY <1>4, <1>5

LEMMA AReaderEnds ==
  ASSUME ReplayInv, ProbeEnds
  PROVE  Promised
<1>1. /\ stage = "replay" /\ stage' = "replay" /\ status = "active" /\ probing
      /\ produced = logicalSize
  BY DEF ProbeEnds, AtEnd, Fail, ReplayInv, StreamInv, ReadInv, EndingInv
<1>2. [Next]_vars
  BY DEF Next, Decode
<1>3. CASE status' = "succeeded"
  <2>1. delivered' = logicalSize
    BY <1>1, <1>3 DEF ProbeEnds, Fail
  <2>2. ReaderEnd = "open" /\ ReaderEnd' = "whole" /\ Given' = Size
    BY <1>1, <1>3, <2>1 DEF ReaderEnd, Given, Size, Prepared
  <2> QED
    BY <1>1, <1>2, <2>2, TheImageStays DEF Prepared, Promised, Replay!ReplayNext, Replay!Finish
<1>4. CASE status' # "succeeded"
  <2>1. status' \in {"Incomplete", "InputNotFullyConsumed"} /\ UNCHANGED delivered
    BY <1>4 DEF ProbeEnds, Fail
  <2> QED
    BY <1>1, <1>2, <2>1, AReaderBreaks DEF Failed
<1> QED
  BY <1>3, <1>4

\* Every other step of a decoder moves nothing that is seen, or fails.
LEMMA AReaderDecodes ==
  ASSUME ReplayInv, Prepared, Fill \/ SourceFails \/ Take \/ Continue \/ Ended \/ ProbeFinds
  PROVE  Promised
<1>1. stage = "replay" /\ status = "active"
  BY DEF Prepared, Fill, SourceFails, Take, Continue, Ended, ProbeFinds, Returned, AtEnd, ReplayInv,
         StreamInv, ReadInv
<1>2. [Next]_vars
  BY DEF Next, Decode, Environment
<1>3. UNCHANGED <<stage, delivered>>
  BY <1>1 DEF Fill, SourceFails, Take, Continue, Ended, ProbeFinds, Fail
<1>4. CASE UNCHANGED status
  <2>1. UNCHANGED <<Given, ReaderEnd>>
    BY <1>3, <1>4 DEF Given, ReaderEnd, Prepared
  <2> QED
    BY <1>2, <2>1, TheImageStays, NoticesNothing
<1>5. CASE status' # status
  <2>1. Failed'
    <3>1. CASE Take
      <4>1. Head(buffer) \in Units
        BY <3>1, TakenUnit DEF Take, ReplayInv, StreamInv, TypeOK
      <4>2. Head(buffer).kind \in {"data", "end"} \cup Reports
        BY <4>1 DEF Units
      <4> QED
        BY <1>1, <1>5, <3>1, <4>2 DEF Take, Fail, Failed, Reports
    <3>2. CASE Fill \/ SourceFails \/ Continue \/ Ended \/ ProbeFinds
      BY <1>1, <1>5, <3>2 DEF Fill, SourceFails, Continue, Ended, ProbeFinds, Fail, Failed
    <3> QED
      BY <3>1, <3>2
  <2> QED
    BY <1>1, <1>2, <1>3, <2>1, AReaderBreaks
<1> QED
  BY <1>4, <1>5

LEMMA PromiseStep ==
  ASSUME ReplayInv, [Next]_vars
  PROVE  Promised
<1>1. CASE ~Prepared
  BY <1>1, BeforeTheImage, TheImageIsHandedOut
<1>2. CASE Prepared
  <2>1. CASE UNCHANGED vars \/ Alter \/ RequestCancel \/ BeginStretch \/ Read
    <3>1. UNCHANGED <<stage, status, delivered>>
      BY <2>1 DEF vars, reader, Alter, RequestCancel, BeginStretch, Read
    <3>2. UNCHANGED <<Given, ReaderEnd>>
      BY <3>1 DEF Given, ReaderEnd, Prepared
    <3> QED
      BY <1>2, <3>2, TheImageStays, NoticesNothing
  <2>2. CASE OpenReader
    BY <2>2, AReaderBegins
  <2>3. ~BeginPreflight /\ ~Revalidate /\ ~Counted /\ ~Measured
    BY <1>2 DEF Prepared, BeginPreflight, Revalidate, Counted, Measured
  <2>4. CASE Fill \/ SourceFails \/ Take \/ Continue \/ Ended \/ ProbeFinds
    BY <1>2, <2>4, AReaderDecodes
  <2>5. CASE Decoded \/ ProbeEnds
    BY <2>5, AReaderGives, AReaderEnds
  <2> QED
    BY <2>1, <2>2, <2>3, <2>4, <2>5 DEF Next, Decode, Operation, Environment
<1> QED
  BY <1>1, <1>2

\* Preflight and the readers keep the image's promise for files of any length and
\* readers that are read in any pieces: an image is what its file decodes to, its last
\* byte comes with the verified end alone, and a reader that failed never goes on
\* (preflight_stream, prepare_compressed_image, StrictReplayReader).
THEOREM ThePromiseIsKept == Spec => KeepsItsPromise
<1>1. Init => Replay!ReplayInit
  <2> SUFFICES ASSUME Init PROVE Replay!ReplayInit
    OBVIOUS
  <2>1. opened \in Seq(Units) /\ Len(opened) \in 0..Len(opened)
    BY DecodeAssumption DEF Init
  <2>2. TotalOut(opened) \in Nat
    BY <2>1, OutputAddsUp DEF TotalOut
  <2>3. Intact(opened) \in BOOLEAN
    BY DEF Intact
  <2>4. Opened \in [intact : BOOLEAN, size : Nat]
    BY <2>2, <2>3 DEF Opened
  <2>5. Size = 0 /\ Given = 0 /\ ReaderEnd = "none"
    BY DEF Init, Size, Given, ReaderEnd, Prepared
  <2> QED
    BY <2>4, <2>5 DEF Replay!ReplayInit
<1>2. ReplayInv /\ [Next]_vars => [Replay!ReplayNext]_(Replay!replayVars)
  BY PromiseStep DEF Promised
<1> QED
  BY <1>1, <1>2, ReplayInvAlways, PTL DEF Spec, KeepsItsPromise, Replay!ReplaySpec

-----------------------------------------------------------------------------
(* Every step of a read counts.                                            *)

\* Preflight offers the decoder the same room for every read.
RoomInv == stage = "preflight" => room = Quantum

LEMMA RoomStays == RoomInv /\ [Next]_vars => RoomInv'
  BY DEF RoomInv, Next, Decode, Operation, Environment, vars, reader, Fill, Take, Continue, Counted,
         Measured, Decoded, Ended, ProbeFinds, ProbeEnds, BeginPreflight, Revalidate, OpenReader,
         Read, SourceFails, Alter, RequestCancel, BeginStretch, Fail

LEMMA AlwaysRoom == Spec => [](ReplayInv /\ RoomInv)
<1>1. Init => RoomInv
  BY DEF Init, RoomInv
<1> QED
  BY <1>1, RoomStays, ReplayInvAlways, PTL DEF Spec

\* What is left is counted in numbers.
LEMMA LeftIsANumber ==
  ASSUME StreamInv
  PROVE  /\ compressedSize \in Nat /\ Limit \in Nat /\ Pace \in 0..3
         /\ consumed \in 0..compressedSize /\ produced \in 0..Limit
         /\ StepsLeft \in 0..(3 * compressedSize + 2 * Limit + 3)
<1>1. /\ opened \in Seq(Units) /\ Limit \in Nat /\ Len(buffer) \in Nat /\ consumed \in Nat
      /\ consumed + Len(buffer) = cursor /\ cursor \in 0..compressedSize /\ produced \in 0..Limit
  BY DecodeAssumption DEF StreamInv, TypeOK
<1>2. compressedSize \in Nat
  BY <1>1 DEF compressedSize
<1>3. Pace \in 0..3
  BY DEF Pace
<1> QED
  BY <1>1, <1>2, <1>3 DEF StepsLeft

\* As long as nothing is consumed or produced, the pace decides.
LEMMA ThePaceDecides ==
  ASSUME StreamInv, UNCHANGED <<opened, consumed, produced>>, Pace' \in Nat, Pace' < Pace
  PROVE  StepsLeft' < StepsLeft
<1>1. compressedSize' = compressedSize
  BY DEF compressedSize
<1> QED
  BY <1>1, LeftIsANumber DEF StepsLeft

LEMMA AFillCounts ==
  ASSUME StreamInv, Fill
  PROVE  StepsLeft' < StepsLeft
<1>1. Pace = 2 /\ UNCHANGED <<opened, consumed, produced>>
  BY DEF Fill, Pace, file
<1>2. call' \in {"none", "eof"} \/ (call' = "run" /\ buffer' # <<>>)
  <2>1. CASE Refill
    BY <2>1 DEF Refill, source
  <2>2. CASE call' = "none"
    BY <2>2
  <2> QED
    BY <2>1, <2>2 DEF Fill, Fail
<1>3. Pace' \in {0, 1}
  BY <1>2 DEF Pace
<1> QED
  BY <1>1, <1>3, ThePaceDecides

LEMMA ATakeCounts ==
  ASSUME StreamInv, Take
  PROVE  StepsLeft' < StepsLeft
<1>1. /\ consumed' = consumed + 1 /\ UNCHANGED <<opened, produced>> /\ Pace = 1
      /\ call' \in {"none", "run", "fill"}
  BY DEF Take, file, Pace, Fail
<1>2. Pace' \in 0..3 /\ compressedSize' = compressedSize
  BY <1>1 DEF Pace, compressedSize
<1> QED
  BY <1>1, <1>2, LeftIsANumber DEF StepsLeft

LEMMA AnOutputCounts ==
  ASSUME ReplayInv, RoomInv, Counted \/ Decoded
  PROVE  StepsLeft' < StepsLeft
<1> DEFINE n == Smaller(held, room)
<1>1. /\ UNCHANGED opened /\ consumed' = consumed /\ Pace \in 1..3
  BY DEF Counted, Decoded, file, Returned, Pace
<1>2. StreamInv /\ held \in Nat \ {0} /\ produced \in Nat
  BY DEF ReplayInv, StreamInv, TypeOK, Counted, Decoded, Returned
<1>3. compressedSize' = compressedSize
  BY <1>1 DEF compressedSize
<1>4. CASE call' = "none"
  <2>1. Pace' = 0
    BY <1>4 DEF Pace
  <2>2. produced' = produced \/ produced' = produced + n
    BY DEF Counted, Decoded, Fail
  <2>3. n \in Nat
    <3>1. room \in Nat
      BY <1>2, DecodeAssumption DEF StreamInv, TypeOK
    <3> QED
      BY <1>2, <3>1 DEF Smaller
  <2> HIDE DEF n
  <2> QED
    BY <1>1, <1>2, <1>3, <2>1, <2>2, <2>3, LeftIsANumber DEF StepsLeft
<1>5. CASE call' # "none"
  <2>1. call' = "fill" /\ produced' = produced + n
    BY <1>5 DEF Counted, Decoded, Fail
  <2>2. Pace' = 2
    BY <2>1 DEF Pace
  <2>3. n \in Nat \ {0}
    <3>1. CASE Counted
      <4>1. room \in Nat \ {0}
        BY <3>1, DecodeAssumption DEF Counted, RoomInv
      <4> QED
        BY <1>2, <4>1 DEF Smaller
    <3>2. CASE Decoded
      <4>1. /\ produced + n = logicalSize /\ produced < logicalSize
        BY <1>5, <3>2 DEF Decoded, Returned, ReplayInv, EndingInv
      <4>2. room \in Nat /\ logicalSize \in Nat
        BY <1>2, DecodeAssumption DEF StreamInv, TypeOK
      <4>3. n \in Nat
        BY <1>2, <4>2 DEF Smaller
      <4> HIDE DEF n
      <4> QED
        BY <1>2, <4>1, <4>2, <4>3
    <3> QED
      BY <3>1, <3>2
  <2> HIDE DEF n
  <2> QED
    BY <1>1, <1>2, <1>3, <2>1, <2>2, <2>3, LeftIsANumber DEF StepsLeft
<1> QED
  BY <1>4, <1>5

LEMMA AnEndCounts ==
  ASSUME StreamInv, Continue \/ Measured \/ Ended \/ ProbeFinds \/ ProbeEnds \/ SourceFails
  PROVE  StepsLeft' < StepsLeft
<1>1. UNCHANGED <<opened, consumed, produced>>
  BY DEF Continue, Measured, Ended, ProbeFinds, ProbeEnds, SourceFails, file
<1>2. \/ Continue /\ Pace = 3 /\ Pace' = 2
      \/ Pace \in 1..3 /\ Pace' = 0
  <2>1. CASE Continue
    BY <2>1 DEF Continue, Pace
  <2>2. CASE Measured \/ Ended \/ ProbeFinds \/ ProbeEnds \/ SourceFails
    <3>1. call # "none" /\ call' = "none"
      BY <2>2 DEF Measured, Ended, ProbeFinds, ProbeEnds, SourceFails, Fail, Returned, AtEnd
    <3> QED
      BY <3>1 DEF Pace
  <2> QED
    BY <2>1, <2>2
<1> QED
  BY <1>1, <1>2, ThePaceDecides

\* A decoder's read takes a bounded number of steps for a file of any length, whatever
\* it is altered to and however little comes of it: no fill is tried again for want of
\* input, and none follows the end (CountingBufRead, decode_to_end, StrictReplayReader).
THEOREM ReadsAreBounded == Spec => EveryStepCounts
<1>1. ReplayInv /\ RoomInv /\ [Next]_vars
      => [call # "none" => StepsLeft' < StepsLeft \/ (Environment /\ UNCHANGED StepsLeft)]_vars
  <2> SUFFICES ASSUME ReplayInv, RoomInv, Next, call # "none"
               PROVE  StepsLeft' < StepsLeft \/ (Environment /\ UNCHANGED StepsLeft)
    OBVIOUS
  <2>1. StreamInv /\ stage \in {"preflight", "replay"}
    BY DEF ReplayInv, StreamInv, ReadInv
  <2>2. ~Operation
    BY <2>1 DEF Operation, BeginPreflight, Revalidate, OpenReader, Read
  <2>3. CASE Decode \/ SourceFails
    BY <2>1, <2>3, AFillCounts, ATakeCounts, AnOutputCounts, AnEndCounts DEF Decode
  <2>4. CASE Alter \/ RequestCancel \/ BeginStretch
    <3>1. UNCHANGED <<opened, consumed, produced, call, buffer>>
      BY <2>4 DEF Alter, RequestCancel, BeginStretch, reader, source, file
    <3> QED
      BY <2>4, <3>1 DEF Environment, StepsLeft, Pace, compressedSize
  <2> QED
    BY <2>2, <2>3, <2>4 DEF Next, Environment
<1> QED
  BY <1>1, AlwaysRoom, PTL DEF Spec, EveryStepCounts

\* How many steps that is, in any state: three for each unit of the file, two for each
\* unit of output within the limit, and three.
THEOREM HowManySteps ==
  Spec => [](StepsLeft \in 0..(3 * compressedSize + 2 * Limit + 3))
<1>1. ReplayInv => StepsLeft \in 0..(3 * compressedSize + 2 * Limit + 3)
  BY LeftIsANumber DEF ReplayInv
<1> QED
  BY <1>1, ReplayInvAlways, PTL
=============================================================================
