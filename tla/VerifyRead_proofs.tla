-------------------------- MODULE VerifyRead_proofs --------------------------
(***************************************************************************)
(* What holds of Verify's reading for images and devices of every size,    *)
(* for every block, alignment and page that the kernel may report, and for *)
(* every window, chunk and longest read.                                   *)
(***************************************************************************)
EXTENDS VerifyRead, FiniteSetTheorems, SequenceTheorems, TLAPS

\* The bytes of a range.
Covered(range) == range[1]..(range[1] + range[2] - 1)

\* What is compared so far: the ranges before this one, and this one's beginning.
Done ==
  {o \in Nat : \E i \in 1..Len(Ranges) :
     o \in Covered(Ranges[i]) /\ (i < index \/ (i = index /\ o < Ranges[i][1] + inner))}

ProgressInv ==
  /\ index <= Len(Ranges) + 1
  /\ index <= Len(Ranges) => inner <= Ranges[index][2]
  /\ outcome # "Mismatch" => compared = {<<o, o>> : o \in Done}
  /\ IsFiniteSet(Done) /\ verified = Cardinality(Done)

\* A piece is compared, read through a usable descriptor; what was read of its span
\* is in its place, and the next read begins on a block and at an alignment.
PieceInv ==
  /\ pc \in {"begin", "loop", "source", "span", "read"} => Usable(geometry)
  /\ pc \in {"source", "span", "read"} => index <= Len(Ranges) /\ inner < Ranges[index][2]
  /\ pc \in {"loop", "source", "span", "read"} => buffer \in [1..BufferLen -> Int]

SpanInv ==
  pc = "read" =>
    /\ start = SpanStart(At) /\ start + len = SpanEnd(At, Want)
    /\ len <= BufferLen /\ start + len <= capacity
    /\ \A i \in 1..filled : buffer[i] = start + i - 1
    /\ filled < len => filled % geometry.block = 0 /\ filled % geometry.memory = 0

VerifyInv ==
  /\ TypeOK /\ ProgressInv /\ PieceInv /\ SpanInv
  /\ pc # "done" => outcome = "none"
  /\ VerdictIsTrue

-----------------------------------------------------------------------------
(* Arithmetic.                                                             *)

LEMMA Division ==
  ASSUME NEW n \in Nat, NEW b \in Nat \ {0}
  PROVE  /\ n \div b \in Nat /\ n % b \in 0..(b - 1)
         /\ n = (n \div b) * b + (n % b)
OBVIOUS

LEMMA MultiplesDivide ==
  ASSUME NEW k \in Int, NEW b \in Nat \ {0}
  PROVE  (k * b) % b = 0
OBVIOUS

LEMMA WholeBlocks ==
  ASSUME NEW n \in Nat, NEW m \in Nat, NEW b \in Nat \ {0}, n % b = 0, m % b = 0
  PROVE  /\ (n + m) % b = 0
         /\ m <= n => (n - m) % b = 0
<1> DEFINE i == n \div b
           j == m \div b
<1>1. i \in Nat /\ j \in Nat /\ n = i * b /\ m = j * b
  BY Division
<1> HIDE DEF i, j
<1>2. n + m = (i + j) * b /\ n - m = (i - j) * b /\ i + j \in Int /\ i - j \in Int
  BY <1>1
<1> QED
  BY <1>2, MultiplesDivide

LEMMA FewerBlocks ==
  ASSUME NEW i \in Int, NEW j \in Int, NEW b \in Nat \ {0}, i * b < j * b
  PROVE  i < j
<1> SUFFICES ASSUME j <= i PROVE FALSE
  OBVIOUS
<1>1. i - j \in Nat /\ (i - j) * b = i * b - j * b
  OBVIOUS
<1>2. (i - j) * b >= 0
  BY <1>1
<1> QED
  BY <1>1, <1>2

\* Rounding up yields the least whole number of blocks.
LEMMA RoundsUp ==
  ASSUME NEW n \in Nat, NEW b \in Nat \ {0}
  PROVE  /\ RoundedUp(n, b) \in Nat /\ RoundedUp(n, b) % b = 0
         /\ n <= RoundedUp(n, b) /\ RoundedUp(n, b) < n + b
         /\ \E k \in Nat : RoundedUp(n, b) = k * b
<1> DEFINE k == (n + b - 1) \div b
<1>0. n + b - 1 \in Nat
  OBVIOUS
<1>1. k \in Nat /\ n + b - 1 = k * b + ((n + b - 1) % b) /\ (n + b - 1) % b \in 0..(b - 1)
  BY <1>0, Division
<1>2. RoundedUp(n, b) = k * b
  BY DEF RoundedUp
<1> HIDE DEF k
<1>3. k * b \in Nat /\ (k * b) % b = 0
  BY <1>1, MultiplesDivide
<1> QED
  BY <1>1, <1>2, <1>3

\* What is rounded up does not pass a whole number of blocks.
LEMMA RoundsUpWithin ==
  ASSUME NEW n \in Nat, NEW c \in Nat, NEW b \in Nat \ {0}, n <= c, c % b = 0
  PROVE  RoundedUp(n, b) <= c
<1>1. PICK k \in Nat : RoundedUp(n, b) = k * b
  BY RoundsUp
<1> DEFINE j == c \div b
<1>2. j \in Nat /\ c = j * b
  BY Division
<1> HIDE DEF j
<1>3. k * b < j * b + b
  <2>1. RoundedUp(n, b) \in Nat /\ RoundedUp(n, b) < n + b
    BY RoundsUp
  <2>2. RoundedUp(n, b) < c + b
    BY <2>1
  <2> QED
    BY <1>1, <1>2, <2>2
<1>4. k * b < (j + 1) * b
  BY <1>2, <1>3
<1>5. k < j + 1
  BY <1>2, <1>4, FewerBlocks
<1>6. j - k \in Nat /\ (j - k) * b = j * b - k * b
  BY <1>2, <1>5
<1>7. (j - k) * b >= 0
  BY <1>6
<1> QED
  BY <1>1, <1>2, <1>6, <1>7

\* The span around any bytes of a chunk fits the buffer.
LEMMA SpanFits ==
  ASSUME NEW at \in Nat, NEW want \in Nat, NEW room \in Nat, NEW b \in Nat \ {0}, want <= room
  PROVE  /\ at - (at % b) \in Nat /\ (at - (at % b)) % b = 0
         /\ at - (at % b) <= at /\ at + want <= RoundedUp(at + want, b)
         /\ RoundedUp(at + want, b) - (at - (at % b)) <= RoundedUp(room, b) + b
         /\ (RoundedUp(at + want, b) - (at - (at % b))) % b = 0
<1> DEFINE from == at - (at % b)
           to == RoundedUp(at + want, b)
           most == RoundedUp(room, b)
<1>1. /\ from \in Nat /\ from <= at /\ at < from + b
      /\ \E i \in Nat : from = i * b
  <2> DEFINE i == at \div b
  <2>1. i \in Nat /\ at % b \in 0..(b - 1) /\ at = i * b + (at % b)
    BY Division
  <2>2. from = at - (at % b)
    OBVIOUS
  <2> DEFINE p == i * b
             r == at % b
  <2>3. p \in Nat /\ r \in 0..(b - 1) /\ at = p + r /\ from = at - r
    BY <2>1, <2>2
  <2>4. \E j \in Nat : p = j * b
    BY <2>1
  <2> HIDE DEF p, r, from
  <2> QED
    BY <2>3, <2>4
<1>2. /\ to \in Nat /\ to % b = 0 /\ at + want <= to /\ to < at + want + b
      /\ \E j \in Nat : to = j * b
  <2>1. at + want \in Nat
    OBVIOUS
  <2> QED
    BY <2>1, RoundsUp
<1>3. /\ most \in Nat /\ room <= most
      /\ \E k \in Nat : most = k * b
  BY RoundsUp
<1> HIDE DEF from, to, most
<1>4. to < from + most + b + b
  BY <1>1, <1>2, <1>3
<1>5. PICK i \in Nat : from = i * b
  BY <1>1
<1>6. PICK j \in Nat : to = j * b
  BY <1>2
<1>7. PICK k \in Nat : most = k * b
  BY <1>3
<1>8. from + most + b + b = (i + k + 2) * b /\ from + most + b = (i + k + 1) * b
  BY <1>5, <1>7
<1>9. j < i + k + 2
  BY <1>4, <1>6, <1>8, FewerBlocks
<1>10. to <= from + most + b
  <2> SUFFICES ASSUME (i + k + 1) * b < j * b PROVE FALSE
    BY <1>1, <1>2, <1>3, <1>6, <1>8
  <2> QED
    BY <1>9, FewerBlocks
<1>11. from % b = 0 /\ from <= to
  BY <1>1, <1>2, <1>5, MultiplesDivide
<1>12. (to - from) % b = 0
  BY <1>1, <1>2, <1>11, WholeBlocks
<1>13. to - from <= most + b
  BY <1>1, <1>2, <1>3, <1>10
<1> QED
  BY <1>1, <1>2, <1>11, <1>12, <1>13 DEF from, to, most

-----------------------------------------------------------------------------
(* The ranges.                                                             *)

\* Append to sequences that are written out.
LEMMA Appended ==
  ASSUME NEW S, NEW s \in Seq(S), NEW e \in S, NEW t \in Seq(S),
         Len(t) = Len(s) + 1, t[Len(s) + 1] = e, \A i \in 1..Len(s) : t[i] = s[i]
  PROVE  Append(s, e) = t
<1>1. /\ Append(s, e) \in Seq(S) /\ Len(Append(s, e)) = Len(s) + 1
      /\ \A i \in 1..Len(s) : Append(s, e)[i] = s[i]
      /\ Append(s, e)[Len(s) + 1] = e
  BY AppendProperties
<1>2. Len(s) \in Nat
  OBVIOUS
<1>3. \A i \in 1..Len(Append(s, e)) : Append(s, e)[i] = t[i]
  BY <1>1, <1>2
<1> QED
  BY <1>1, <1>3, SeqEqual

LEMMA AppendedToOne ==
 ASSUME NEW S, NEW a \in S, NEW b \in S
  PROVE  Append(<<a>>, b) = <<a, b>>
<1> DEFINE s == <<a>>
           t == <<a, b>>
<1>1. s \in Seq(S) /\ Len(s) = 1 /\ s[1] = a
  OBVIOUS
<1>2. t \in Seq(S) /\ Len(t) = 2 /\ t[1] = a /\ t[2] = b
  OBVIOUS
<1> HIDE DEF s, t
<1>3. Len(t) = Len(s) + 1 /\ t[Len(s) + 1] = b /\ \A i \in 1..Len(s) : t[i] = s[i]
  BY <1>1, <1>2
<1>4. Append(s, b) = t
  BY <1>1, <1>2, <1>3, Appended
<1> QED
  BY <1>4 DEF s, t

LEMMA AppendedToTwo ==
 ASSUME NEW S, NEW a \in S, NEW b \in S, NEW c \in S
  PROVE  Append(<<a,b>>, c) = <<a, b, c>>
<1> DEFINE s == <<a, b>>
           t == <<a, b, c>>
<1>1. s \in Seq(S) /\ Len(s) = 2 /\ s[1] = a /\ s[2] = b
  OBVIOUS
<1>2. t \in Seq(S) /\ Len(t) = 3 /\ t[1] = a /\ t[2] = b /\ t[3] = c
  OBVIOUS
<1> HIDE DEF s, t
<1>3. Len(t) = Len(s) + 1 /\ t[Len(s) + 1] = c /\ \A i \in 1..Len(s) : t[i] = s[i]
  BY <1>1, <1>2
<1>4. Append(s, c) = t
  BY <1>1, <1>2, <1>3, Appended
<1> QED
  BY <1>4 DEF s, t

LEMMA MergesIntoOne ==
  ASSUME NEW s \in Nat, NEW l \in Nat, NEW at \in Nat, NEW n \in Nat
  PROVE  Merge(<<<<s, l>>>>, <<at, n>>) =
           IF at <= s + l THEN <<<<s, Greater(at + n, s + l) - s>>>>
                          ELSE <<<<s, l>>, <<at, n>>>>
<1> DEFINE range == <<at, n>>
           last == <<s, l>>
           r == <<last>>
<1>1. r # <<>> /\ Len(r) = 1 /\ r[1] = last
  OBVIOUS
<1>2. range[1] = at /\ range[2] = n /\ last[1] = s /\ last[2] = l
  OBVIOUS
<1>3. Append(r, range) = <<last, range>>
  <2>1. last \in Nat \X Nat /\ range \in Nat \X Nat
    OBVIOUS
  <2> HIDE DEF last, range
  <2> QED
    BY <2>1, AppendedToOne
<1>4. \A x : [r EXCEPT ![1] = x] = <<x>>
  OBVIOUS
<1> QED
  BY <1>1, <1>2, <1>3, <1>4 DEF Merge

LEMMA StaysApart ==
  ASSUME NEW first \in Nat \X Nat, NEW last \in Nat \X Nat, NEW range \in Nat \X Nat,
         ~(range[1] <= last[1] + last[2])
  PROVE  Merge(<<first, last>>, range) = <<first, last, range>>
<1> DEFINE r == <<first, last>>
<1>1. r # <<>> /\ Len(r) = 2 /\ r[2] = last
  OBVIOUS
<1>2. Merge(r, range) = Append(r, range)
  <2> HIDE DEF r
  <2> QED
    BY <1>1 DEF Merge
<1> QED
  BY <1>2, AppendedToTwo

\* The middle window of an image larger than three windows begins here.
Middle(n) == (n \div 2) - (Window \div 2)

\* One range for up to three windows, two where the middle window touches the first,
\* three otherwise.
LEMMA QuickRangesAre ==
  ASSUME NEW n \in Nat
  PROVE  /\ n = 0 => QuickRanges(n) = <<>>
         /\ n > 0 /\ n <= 3 * Window => QuickRanges(n) = <<<<0, n>>>>
         /\ n > 3 * Window =>
              /\ Middle(n) \in Nat /\ Middle(n) >= Window /\ Middle(n) + Window < n - Window
              /\ QuickRanges(n) =
                   IF Middle(n) = Window
                   THEN <<<<0, 2 * Window>>, <<n - Window, Window>>>>
                   ELSE <<<<0, Window>>, <<Middle(n), Window>>, <<n - Window, Window>>>>
<1> DEFINE h == Window \div 2
           q == n \div 2
           w == Lesser(Window, n)
           m == Lesser(Greater(q - (w \div 2), 0), n - w)
<1>1. h \in Nat \ {0} /\ Window = 2 * h
  BY VerifyAssumption
<1>2. q \in Nat /\ (n = 2 * q \/ n = 2 * q + 1)
  OBVIOUS
<1>3. n = 0 => QuickRanges(n) = <<>>
  BY DEF QuickRanges
<1>4. n > 0 => QuickRanges(n) = Merge(Merge(<<<<0, w>>>>, <<m, w>>), <<n - w, w>>)
  BY DEF QuickRanges
<1>5. CASE n > 0 /\ n <= Window
  <2>1. w = n
    BY <1>1, <1>5 DEF Lesser
  <2>2. m = 0
    BY <1>1, <1>2, <2>1 DEF Lesser, Greater
  <2>3. Merge(<<<<0, n>>>>, <<0, n>>) = <<<<0, n>>>>
    <3>1. Merge(<<<<0, n>>>>, <<0, n>>) = <<<<0, Greater(0 + n, 0 + n) - 0>>>>
      BY MergesIntoOne, 0 \in Nat, 0 <= 0 + n
    <3> QED
      BY <3>1 DEF Greater
  <2> HIDE DEF w, m
  <2> QED
    BY <1>1, <1>4, <1>5, <2>1, <2>2, <2>3
<1>6. CASE n > Window
  <2>1. w = Window /\ w \div 2 = h
    BY <1>1, <1>6 DEF Lesser
  <2>2. q >= h /\ q - h <= n - Window
    BY <1>1, <1>2, <1>6
  <2>3. m = q - h
    BY <1>1, <1>2, <1>6, <2>1, <2>2 DEF Lesser, Greater
  <2> DEFINE mid == q - h
             tail == n - Window
             sum == mid + Window
  <2>4. QuickRanges(n) = Merge(Merge(<<<<0, Window>>>>, <<mid, Window>>), <<tail, Window>>)
    <3>1. m = mid /\ w = Window /\ n - w = tail
      BY <2>1, <2>3
    <3>2. n > 0
      BY <1>1, <1>6
    <3> HIDE DEF m, w, mid, tail
    <3> QED
      BY <1>4, <3>1, <3>2
  <2>5. /\ Window \in Nat \ {0} /\ mid \in Nat /\ tail \in Nat /\ sum \in Nat
        /\ sum = mid + Window /\ tail + Window = n /\ 0 <= Window
        /\ mid <= Window <=> n <= 3 * Window + 1
        /\ mid = Window => n > 3 * Window - 1
        /\ tail <= sum <=> n <= 3 * Window
        /\ mid <= Window /\ n > 3 * Window => mid = Window
        /\ mid <= tail
    BY <1>1, <1>2, <1>6, <2>2
  <2> HIDE DEF mid, tail, sum
  <2>6. Merge(<<<<0, Window>>>>, <<mid, Window>>) =
          IF mid <= Window THEN <<<<0, sum>>>> ELSE <<<<0, Window>>, <<mid, Window>>>>
    <3>1. Merge(<<<<0, Window>>>>, <<mid, Window>>) =
            IF mid <= 0 + Window THEN <<<<0, Greater(mid + Window, 0 + Window) - 0>>>>
                                 ELSE <<<<0, Window>>, <<mid, Window>>>>
      BY <2>5, 0 \in Nat, MergesIntoOne
    <3>2. Greater(mid + Window, 0 + Window) - 0 = sum /\ 0 + Window = Window
      BY <2>5 DEF Greater
    <3> QED
      BY <3>1, <3>2
  <2>7. Merge(<<<<0, sum>>>>, <<tail, Window>>) =
          IF tail <= sum THEN <<<<0, n>>>> ELSE <<<<0, sum>>, <<tail, Window>>>>
    <3>1. Merge(<<<<0, sum>>>>, <<tail, Window>>) =
            IF tail <= 0 + sum THEN <<<<0, Greater(tail + Window, 0 + sum) - 0>>>>
                               ELSE <<<<0, sum>>, <<tail, Window>>>>
      BY <2>5, 0 \in Nat, MergesIntoOne
    <3>2. Greater(tail + Window, 0 + sum) - 0 = n /\ 0 + sum = sum
      BY <2>5 DEF Greater
    <3> QED
      BY <3>1, <3>2
  <2>8. CASE n <= 3 * Window
    <3>1. mid <= Window /\ tail <= sum
      BY <2>5, <2>8
    <3>2. QuickRanges(n) = <<<<0, n>>>>
      BY <2>4, <2>6, <2>7, <3>1
    <3> QED
      BY <1>1, <1>6, <2>8, <3>2
  <2>9. CASE n > 3 * Window /\ mid = Window
    <3>1. mid <= Window /\ ~(tail <= sum) /\ sum = 2 * Window
      BY <2>5, <2>9
    <3>2. QuickRanges(n) = <<<<0, 2 * Window>>, <<tail, Window>>>>
      BY <2>4, <2>6, <2>7, <3>1
    <3> QED
      BY <1>1, <1>2, <2>5, <2>9, <3>1, <3>2 DEF Middle, mid, tail, sum
  <2>10. CASE n > 3 * Window /\ mid # Window
    <3>1. ~(mid <= Window) /\ ~(tail <= sum)
      BY <2>5, <2>10
    <3>2. Merge(<<<<0, Window>>, <<mid, Window>>>>, <<tail, Window>>) =
            <<<<0, Window>>, <<mid, Window>>, <<tail, Window>>>>
      <4> DEFINE first == <<0, Window>>
                 middle == <<mid, Window>>
                 last == <<tail, Window>>
      <4>1. /\ first \in Nat \X Nat /\ middle \in Nat \X Nat /\ last \in Nat \X Nat
            /\ ~(last[1] <= middle[1] + middle[2])
        BY <2>5, <3>1
      <4> HIDE DEF first, middle, last
      <4>2. Merge(<<first, middle>>, last) = <<first, middle, last>>
        BY <4>1, StaysApart
      <4> QED
        BY <4>2 DEF first, middle, last
    <3>3. QuickRanges(n) = <<<<0, Window>>, <<mid, Window>>, <<tail, Window>>>>
      BY <2>4, <2>6, <3>1, <3>2
    <3> QED
      BY <1>1, <1>2, <2>5, <2>10, <3>1, <3>3 DEF Middle, mid, tail, sum
  <2> QED
    BY <1>1, <1>6, <2>8, <2>9, <2>10
<1>7. CASE n = 0
  BY <1>1, <1>3, <1>7
<1> QED
  BY <1>1, <1>5, <1>6, <1>7

\* Ranges within an image of n bytes, in order and apart, that cover just P.
Tiles(ranges, n, P) ==
  /\ ranges \in Seq(Nat \X Nat)
  /\ \A i \in 1..Len(ranges) :
       /\ ranges[i][1] + ranges[i][2] <= n
       /\ Covered(ranges[i]) \subseteq P
       /\ \A j \in 1..Len(ranges) : i < j => ranges[i][1] + ranges[i][2] <= ranges[j][1]
  /\ P \subseteq Nat
  /\ \A o \in P : \E i \in 1..Len(ranges) : o \in Covered(ranges[i])

LEMMA OneTile ==
  ASSUME NEW n \in Nat
  PROVE  Tiles(<<<<0, n>>>>, n, 0..(n - 1))
<1> DEFINE r == <<<<0, n>>>>
<1>1. r \in Seq(Nat \X Nat) /\ Len(r) = 1 /\ r[1] = <<0, n>>
  OBVIOUS
<1>2. Covered(r[1]) = 0..(n - 1) /\ r[1][1] + r[1][2] <= n
  BY <1>1 DEF Covered
<1> HIDE DEF r
<1>3. \A i \in 1..Len(r) : i = 1
  BY <1>1
<1>4. \A o \in 0..(n - 1) : \E i \in 1..Len(r) : o \in Covered(r[i])
  BY <1>1, <1>2
<1>5. Tiles(r, n, 0..(n - 1))
  BY <1>1, <1>2, <1>3, <1>4 DEF Tiles
<1> QED
  BY <1>5 DEF r

LEMMA TwoTiles ==
  ASSUME NEW a \in Nat, NEW c \in Nat, NEW d \in Nat, NEW n \in Nat, NEW P,
         a <= c, c + d <= n, P = (0..(a - 1)) \cup (c..(c + d - 1))
  PROVE  Tiles(<<<<0, a>>, <<c, d>>>>, n, P)
<1> DEFINE r == <<<<0, a>>, <<c, d>>>>
<1>1. r \in Seq(Nat \X Nat) /\ Len(r) = 2
  OBVIOUS
<1>2. r[1][1] = 0 /\ r[1][2] = a /\ r[2][1] = c /\ r[2][2] = d
  OBVIOUS
<1> HIDE DEF r
<1>3. Covered(r[1]) = 0..(a - 1) /\ Covered(r[2]) = c..(c + d - 1)
  BY <1>2 DEF Covered
<1>4. \A i \in 1..Len(r) : i = 1 \/ i = 2
  BY <1>1
<1>5. P \subseteq Nat /\ 1 \in 1..Len(r) /\ 2 \in 1..Len(r)
  BY <1>1
<1>6. \A o \in P : \E i \in 1..Len(r) : o \in Covered(r[i])
  BY <1>3, <1>5
<1>7. \A i \in 1..Len(r) :
        /\ r[i][1] + r[i][2] <= n /\ Covered(r[i]) \subseteq P
        /\ \A j \in 1..Len(r) : i < j => r[i][1] + r[i][2] <= r[j][1]
  BY <1>2, <1>3, <1>4
<1>8. Tiles(r, n, P)
  BY <1>1, <1>5, <1>6, <1>7 DEF Tiles
<1> QED
  BY <1>8 DEF r

LEMMA ThreeTiles ==
  ASSUME NEW a \in Nat, NEW c \in Nat, NEW d \in Nat, NEW e \in Nat, NEW f \in Nat, NEW n \in Nat, NEW P,
         a <= c, c + d <= e, e + f <= n,
         P = (0..(a - 1)) \cup (c..(c + d - 1)) \cup (e..(e + f - 1))
  PROVE  Tiles(<<<<0, a>>, <<c, d>>, <<e, f>>>>, n, P)
<1> DEFINE r == <<<<0, a>>, <<c, d>>, <<e, f>>>>
<1>1. r \in Seq(Nat \X Nat) /\ Len(r) = 3
  OBVIOUS
<1>2. r[1][1] = 0 /\ r[1][2] = a /\ r[2][1] = c /\ r[2][2] = d /\ r[3][1] = e /\ r[3][2] = f
  OBVIOUS
<1> HIDE DEF r
<1>3. Covered(r[1]) = 0..(a - 1) /\ Covered(r[2]) = c..(c + d - 1) /\ Covered(r[3]) = e..(e + f - 1)
  BY <1>2 DEF Covered
<1>4. \A i \in 1..Len(r) : i = 1 \/ i = 2 \/ i = 3
  BY <1>1
<1>5. P \subseteq Nat /\ 1 \in 1..Len(r) /\ 2 \in 1..Len(r) /\ 3 \in 1..Len(r)
  BY <1>1
<1>6. \A o \in P : \E i \in 1..Len(r) : o \in Covered(r[i])
  BY <1>3, <1>5
<1>7. \A i \in 1..Len(r) :
        /\ r[i][1] + r[i][2] <= n /\ Covered(r[i]) \subseteq P
        /\ \A j \in 1..Len(r) : i < j => r[i][1] + r[i][2] <= r[j][1]
  <2>1. /\ r[1][1] + r[1][2] = a /\ r[2][1] + r[2][2] = c + d /\ r[3][1] + r[3][2] = e + f
        /\ a <= n /\ c + d <= n
    BY <1>2
  <2>2. TAKE i \in 1..Len(r)
  <2>3. r[i][1] + r[i][2] <= n /\ Covered(r[i]) \subseteq P
    BY <1>3, <1>4, <2>1
  <2>4. ASSUME NEW j \in 1..Len(r), i < j PROVE r[i][1] + r[i][2] <= r[j][1]
    <3>1. (i = 1 /\ j = 2) \/ (i = 1 /\ j = 3) \/ (i = 2 /\ j = 3)
      BY <1>4, <2>4
    <3>2. a <= c /\ a <= e /\ c + d <= e
      OBVIOUS
    <3> QED
      BY <1>2, <2>1, <3>1, <3>2
  <2> QED
    BY <2>3, <2>4
<1>8. Tiles(r, n, P)
  BY <1>1, <1>5, <1>6, <1>7 DEF Tiles
<1> QED
  BY <1>8 DEF r

\* The ranges are within the image, apart, and cover just what was promised.
LEMMA RangesTile ==
  ASSUME mode \in {"Full", "Quick"}, size \in Nat
  PROVE  Tiles(Ranges, size, Promised)
<1>1. Window \in Nat \ {0} /\ \E h \in Nat : h = Window \div 2 /\ Window = 2 * h
  BY VerifyAssumption
<1>2. CASE mode = "Full"
  BY <1>2, OneTile DEF Ranges, Promised
<1>3. CASE mode = "Quick" /\ size = 0
  <2>1. Ranges = <<>>
    BY <1>3, QuickRangesAre DEF Ranges
  <2>2. Promised = {}
    BY <1>1, <1>3 DEF Promised
  <2> QED
    BY <2>1, <2>2 DEF Tiles
<1>4. CASE mode = "Quick" /\ size > 0 /\ size <= 3 * Window
  BY <1>4, OneTile, QuickRangesAre DEF Ranges, Promised
<1>5. CASE mode = "Quick" /\ size > 3 * Window
  <2> DEFINE mid == Middle(size)
             tail == size - Window
  <2>1. /\ mid \in Nat /\ tail \in Nat /\ mid >= Window /\ mid + Window < tail
        /\ tail + Window = size
    BY <1>1, <1>5, QuickRangesAre
  <2>2. Ranges = IF mid = Window
                 THEN <<<<0, 2 * Window>>, <<tail, Window>>>>
                 ELSE <<<<0, Window>>, <<mid, Window>>, <<tail, Window>>>>
    BY <1>5, QuickRangesAre DEF Ranges
  <2>3. Promised = {o \in 0..(size - 1) :
                      o < Window \/ o >= tail \/ o \in mid..(mid + Window - 1)}
    <3>1. (size \div 2) + (Window \div 2) - 1 = mid + Window - 1
      BY <1>1 DEF Middle
    <3> QED
      BY <1>1, <1>5, <3>1 DEF Promised, Middle
  <2> HIDE DEF mid, tail
  <2>4. Promised = (0..(Window - 1)) \cup (mid..(mid + Window - 1)) \cup (tail..(tail + Window - 1))
    BY <1>1, <2>1, <2>3
  <2>5. CASE mid = Window
    <3>1. Promised = (0..(2 * Window - 1)) \cup (tail..(tail + Window - 1))
      BY <1>1, <2>1, <2>4, <2>5
    <3>2. 2 * Window \in Nat /\ 2 * Window <= tail /\ tail + Window <= size
      BY <1>1, <2>1, <2>5
    <3> DEFINE double == 2 * Window
    <3>3. Promised = (0..(double - 1)) \cup (tail..(tail + Window - 1)) /\ double \in Nat /\ double <= tail
          /\ Ranges = <<<<0, double>>, <<tail, Window>>>>
      BY <2>2, <2>5, <3>1, <3>2
    <3> HIDE DEF double
    <3>4. Tiles(<<<<0, double>>, <<tail, Window>>>>, size, Promised)
      BY <1>1, <2>1, <3>2, <3>3, TwoTiles
    <3> QED
      BY <3>3, <3>4
  <2>6. CASE mid # Window
    <3>1. Window <= mid /\ mid + Window <= tail /\ tail + Window <= size
      BY <1>1, <2>1
    <3>2. Tiles(<<<<0, Window>>, <<mid, Window>>, <<tail, Window>>>>, size, Promised)
      BY <1>1, <2>1, <2>4, <3>1, ThreeTiles
    <3> QED
      BY <2>2, <2>6, <3>2
  <2> QED
    BY <2>5, <2>6
<1> QED
  BY <1>1, <1>2, <1>3, <1>4, <1>5

-----------------------------------------------------------------------------
(* The reading.                                                            *)

\* A usable descriptor's block and alignments are powers of two that a read and an
\* address of the buffer are multiples of.
LEMMA UsableGeometry ==
  ASSUME TypeOK, Usable(geometry)
  PROVE  /\ geometry.block \in Nat \ {0} /\ geometry.memory \in Nat \ {0}
         /\ MaxRead \in Nat \ {0} /\ MaxRead % geometry.block = 0
         /\ Alignment \in Nat \ {0} /\ Alignment % geometry.memory = 0
<1>1. /\ geometry.block \in Powers /\ geometry.memory \in Powers /\ geometry.page \in Powers
      /\ geometry.block <= MaxRead /\ MaxRead \in Powers
  BY VerifyAssumption DEF Usable, Fits
<1>2. \A n \in Powers : n \in Nat \ {0}
  BY PowersDivide
<1>3. MaxRead % geometry.block = 0
  BY <1>1, PowersDivide
<1>4. Alignment \in Powers /\ geometry.memory <= Alignment
  BY <1>1, <1>2 DEF Alignment, Greater
<1>5. Alignment % geometry.memory = 0
  BY <1>1, <1>4, PowersDivide
<1> QED
  BY <1>1, <1>2, <1>3, <1>4, <1>5

LEMMA TypedRanges ==
  ASSUME TypeOK
  PROVE  /\ size \in Nat /\ capacity \in Nat /\ Chunk \in Nat \ {0}
         /\ Tiles(Ranges, size, Promised) /\ Len(Ranges) \in Nat
         /\ \A i \in 1..Len(Ranges) : Ranges[i][1] \in Nat /\ Ranges[i][2] \in Nat
<1>1. mode \in {"Full", "Quick"} /\ size \in Nat /\ capacity \in Nat /\ Chunk \in Nat \ {0}
  BY VerifyAssumption DEF TypeOK
<1>2. Tiles(Ranges, size, Promised)
  BY <1>1, RangesTile
<1>3. Ranges \in Seq(Nat \X Nat)
  BY <1>2 DEF Tiles
<1>4. \A i \in 1..Len(Ranges) : Ranges[i] \in Nat \X Nat
  BY <1>3
<1> QED
  BY <1>1, <1>2, <1>3, <1>4

\* A piece lies in its range, and with it in the image and among what was promised.
LEMMA PieceInRange ==
  ASSUME TypeOK, index <= Len(Ranges), inner < Ranges[index][2]
  PROVE  /\ At \in Nat /\ Want \in Nat \ {0} /\ Want <= Chunk
         /\ At + Want <= Ranges[index][1] + Ranges[index][2] /\ At + Want <= size
         /\ inner + Want <= Ranges[index][2]
         /\ At..(At + Want - 1) \subseteq Promised
<1>1. index \in 1..Len(Ranges) /\ inner \in Nat
  BY TypedRanges DEF TypeOK
<1>2. /\ Ranges[index][1] \in Nat /\ Ranges[index][2] \in Nat
      /\ Ranges[index][1] + Ranges[index][2] <= size
      /\ Ranges[index][1]..(Ranges[index][1] + Ranges[index][2] - 1) \subseteq Promised
  BY <1>1, TypedRanges DEF Tiles, Covered
<1>3. size \in Nat /\ Chunk \in Nat \ {0}
  BY TypedRanges
<1> DEFINE from == Ranges[index][1]
           n == Ranges[index][2]
<1>4. At = from + inner /\ Want = Lesser(n - inner, Chunk) /\ inner < n
  BY DEF At, Want
<1>5. from \in Nat /\ n \in Nat /\ from + n <= size /\ from..(from + n - 1) \subseteq Promised
  BY <1>2
<1> HIDE DEF from, n
<1>6. Want \in Nat \ {0} /\ Want <= Chunk /\ inner + Want <= n
  BY <1>1, <1>3, <1>4, <1>5 DEF Lesser
<1>7. At \in Nat /\ At + Want <= from + n /\ At + Want <= size
  BY <1>1, <1>3, <1>4, <1>5, <1>6
<1>8. At..(At + Want - 1) \subseteq from..(from + n - 1)
  <2>1. At >= from /\ Want \in Nat
    BY <1>1, <1>4, <1>5, <1>6
  <2> QED
    BY <1>5, <1>7, <2>1
<1> QED
  BY <1>5, <1>6, <1>7, <1>8 DEF from, n

\* What stays as it was while the request, the progress and the span do.
LEMMA SameRequest ==
  ASSUME UNCHANGED request
  PROVE  /\ Ranges' = Ranges /\ Promised' = Promised /\ BufferLen' = BufferLen
         /\ Usable(geometry)' = Usable(geometry)
BY DEF request, Ranges, Promised, BufferLen, Usable

LEMMA SameProgress ==
  ASSUME ProgressInv, UNCHANGED request, UNCHANGED progress,
         outcome # "Mismatch" \/ UNCHANGED outcome
  PROVE  ProgressInv' /\ At' = At /\ Want' = Want /\ Done' = Done
<1>1. Ranges' = Ranges
  BY SameRequest
<1>2. UNCHANGED <<index, inner, verified, compared>>
  BY DEF progress
<1>3. At' = At /\ Want' = Want /\ Done' = Done
  BY <1>1, <1>2 DEF At, Want, Done, Covered
<1> QED
  BY <1>1, <1>2, <1>3 DEF ProgressInv

LEMMA SameOutcome ==
  ASSUME VerdictIsTrue, UNCHANGED request, UNCHANGED progress, UNCHANGED <<outcome, mismatch>>
  PROVE  VerdictIsTrue'
<1>1. Promised' = Promised /\ geometry' = geometry /\ capacity' = capacity
  BY SameRequest DEF request
<1> QED
  BY <1>1 DEF VerdictIsTrue, progress

LEMMA InitVerify == Init => VerifyInv
<1> SUFFICES ASSUME Init PROVE VerifyInv
  OBVIOUS
<1>1. TypeOK
  <2>1. buffer \in Seq(Int) /\ mismatch \in {<<>>} \cup (Nat \X Int)
    BY EmptySeq DEF Init
  <2>2. compared \subseteq (Nat \X Int) /\ filled \in 0..len
    BY DEF Init
  <2>3. outcome \in Outcomes
    BY DEF Init, Outcomes
  <2>4. index \in Nat \ {0} /\ inner \in Nat /\ verified \in Nat /\ start \in Nat /\ len \in Nat
    BY DEF Init
  <2>5. pc \in {"query", "begin", "loop", "source", "span", "read", "done"} /\ cancel \in BOOLEAN
    BY DEF Init
  <2>6. /\ geometry \in Geometries /\ capacity \in Capacities
        /\ size \in ImageSizes /\ size <= capacity /\ mode \in Modes /\ access \in Accesses
    BY DEF Init
  <2> QED
    BY <2>1, <2>2, <2>3, <2>4, <2>5, <2>6 DEF TypeOK
<1>2. Len(Ranges) \in Nat /\ \A i \in 1..Len(Ranges) : Ranges[i][1] \in Nat /\ Ranges[i][2] \in Nat
  BY <1>1, TypedRanges
<1>3. Done = {}
  BY <1>2 DEF Init, Done, Covered
<1>4. ProgressInv
  BY <1>2, <1>3, FS_EmptySet DEF Init, ProgressInv
<1> QED
  BY <1>1, <1>4 DEF Init, VerifyInv, PieceInv, SpanInv, VerdictIsTrue

LEMMA QueryKeeps == VerifyInv /\ Query => VerifyInv'
<1> SUFFICES ASSUME VerifyInv, Query PROVE VerifyInv'
  OBVIOUS
<1>1. UNCHANGED request /\ UNCHANGED progress /\ UNCHANGED span /\ UNCHANGED <<cancel, mismatch>>
  BY DEF Query
<1>2. TypeOK' /\ pc' \in {"begin", "done"} /\ (pc' = "begin" => Usable(geometry) /\ outcome' = outcome)
  BY <1>1 DEF Query, Finish, VerifyInv, TypeOK, Outcomes, request, progress, span
<1>3. ProgressInv'
  <2>1. outcome = "none"
    BY DEF Query, VerifyInv
  <2> QED
    BY <1>1, <2>1, SameProgress DEF VerifyInv
<1>4. outcome' \in {"none", "NotStarted"} /\ (pc' # "done" => outcome' = "none")
  BY <1>2 DEF Query, Finish, VerifyInv
<1>5. PieceInv' /\ SpanInv'
  BY <1>1, <1>2, SameRequest DEF PieceInv, SpanInv
<1>6. VerdictIsTrue'
  BY <1>4 DEF VerdictIsTrue
<1> QED
  BY <1>2, <1>3, <1>4, <1>5, <1>6 DEF VerifyInv

LEMMA BufferTyped ==
  ASSUME TypeOK, Usable(geometry)
  PROVE  BufferLen \in Nat /\ \A f \in [1..BufferLen -> Int] : f \in Seq(Int)
<1>1. geometry.block \in Nat \ {0} /\ Chunk \in Nat
  BY UsableGeometry, TypedRanges
<1>2. RoundedUp(Chunk, geometry.block) \in Nat
  BY <1>1, RoundsUp
<1>3. BufferLen \in Nat
  BY <1>1, <1>2 DEF BufferLen
<1> QED
  BY <1>3

LEMMA BeginKeeps == VerifyInv /\ Begin => VerifyInv'
<1> SUFFICES ASSUME VerifyInv, Begin PROVE VerifyInv'
  OBVIOUS
<1>1. UNCHANGED request /\ UNCHANGED progress /\ UNCHANGED <<start, len, filled, cancel, mismatch>>
  BY DEF Begin
<1>2. pc = "begin" /\ outcome = "none" /\ Usable(geometry)
  BY DEF Begin, VerifyInv, PieceInv
<1>3. BufferLen \in Nat /\ \A f \in [1..BufferLen -> Int] : f \in Seq(Int)
  BY <1>2, BufferTyped DEF VerifyInv
<1>4. \/ /\ pc' = "done" /\ buffer' = buffer
         /\ outcome' \in {"UnsupportedAccess", "Cancelled", "SourceReadError", "TargetReadError"}
      \/ /\ pc' = "loop" /\ outcome' = "none"
         /\ buffer' \in [1..BufferLen -> Int]
  BY <1>2 DEF Begin, Finish
<1>5. TypeOK'
  BY <1>1, <1>3, <1>4 DEF VerifyInv, TypeOK, Outcomes, request, progress
<1>6. ProgressInv'
  BY <1>1, <1>2, SameProgress DEF VerifyInv
<1>7. PieceInv' /\ SpanInv'
  BY <1>1, <1>2, <1>4, SameRequest DEF PieceInv, SpanInv
<1>8. VerdictIsTrue'
  BY <1>4 DEF VerdictIsTrue
<1> QED
  BY <1>4, <1>5, <1>6, <1>7, <1>8 DEF VerifyInv

\* A step that ends with an error or goes on to the next part of the same piece.
LEMMA Goes ==
  ASSUME VerifyInv, UNCHANGED request, UNCHANGED progress, UNCHANGED <<buffer, cancel, mismatch>>,
         TypeOK', pc \in {"loop", "source", "span", "read"},
         \/ pc' = "done" /\ outcome' \in {"Cancelled", "SourceReadError", "SourceUnexpectedEof",
                                          "TargetReadError", "TargetUnexpectedEof"}
         \/ pc' \in {"source", "span"} /\ outcome' = outcome
            /\ index <= Len(Ranges) /\ inner < Ranges[index][2]
  PROVE  VerifyInv'
<1>1. ProgressInv' /\ Ranges' = Ranges /\ BufferLen' = BufferLen /\ Usable(geometry)' = Usable(geometry)
  BY SameProgress, SameRequest DEF VerifyInv
<1>2. PieceInv' /\ SpanInv'
  BY <1>1 DEF VerifyInv, PieceInv, SpanInv, progress
<1>3. VerdictIsTrue' /\ (pc' # "done" => outcome' = "none")
  BY DEF VerifyInv, VerdictIsTrue
<1> QED
  BY <1>1, <1>2, <1>3 DEF VerifyInv

LEMMA NextChunkKeeps == VerifyInv /\ NextChunk => VerifyInv'
<1> SUFFICES ASSUME VerifyInv, NextChunk PROVE VerifyInv'
  OBVIOUS
<1>1. UNCHANGED request /\ UNCHANGED span /\ UNCHANGED <<cancel, verified, compared, mismatch>>
  BY DEF NextChunk
<1>2. pc = "loop" /\ outcome = "none" /\ Usable(geometry) /\ buffer \in [1..BufferLen -> Int]
  BY DEF NextChunk, VerifyInv, PieceInv
<1>3. /\ Ranges' = Ranges /\ Promised' = Promised /\ BufferLen' = BufferLen
      /\ Usable(geometry)' = Usable(geometry)
  BY <1>1, SameRequest
<1>4. /\ Len(Ranges) \in Nat /\ Tiles(Ranges, size, Promised)
      /\ \A i \in 1..Len(Ranges) : Ranges[i][1] \in Nat /\ Ranges[i][2] \in Nat
  BY TypedRanges DEF VerifyInv
<1>5. index \in Nat \ {0} /\ inner \in Nat /\ index <= Len(Ranges) + 1
  BY DEF VerifyInv, TypeOK, ProgressInv
<1>6. CASE index > Len(Ranges) /\ Finish("Succeeded") /\ UNCHANGED <<index, inner>>
  <2>1. UNCHANGED progress
    BY <1>1, <1>6 DEF progress
  <2>2. TypeOK'
    BY <1>1, <1>6, <2>1 DEF VerifyInv, TypeOK, Finish, Outcomes, request, span, progress
  <2>3. ProgressInv' /\ Done' = Done
    BY <1>1, <1>2, <2>1, SameProgress DEF VerifyInv
  <2>4. Done = Promised
    <3>1. Done \subseteq Promised
      BY <1>4 DEF Done, Tiles
    <3>2. ASSUME NEW o \in Promised PROVE o \in Done
      <4>1. PICK i \in 1..Len(Ranges) : o \in Covered(Ranges[i])
        BY <1>4 DEF Tiles
      <4>2. o \in Nat /\ i < index
        BY <1>4, <1>5, <1>6 DEF Tiles
      <4> QED
        BY <4>1, <4>2 DEF Done
    <3> QED
      BY <3>1, <3>2
  <2>5. VerdictIsTrue'
    BY <1>1, <1>3, <1>6, <2>3, <2>4 DEF VerifyInv, ProgressInv, VerdictIsTrue, Finish
  <2>6. PieceInv' /\ SpanInv' /\ pc' = "done"
    BY <1>6 DEF PieceInv, SpanInv, Finish
  <2> QED
    BY <2>2, <2>3, <2>5, <2>6 DEF VerifyInv
<1>7. CASE /\ index <= Len(Ranges) /\ inner >= Ranges[index][2]
           /\ index' = index + 1 /\ inner' = 0 /\ UNCHANGED <<pc, outcome>>
  <2>1. TypeOK'
    BY <1>1, <1>5, <1>7 DEF VerifyInv, TypeOK, request, span
  <2>2. index \in 1..Len(Ranges) /\ inner = Ranges[index][2]
    BY <1>4, <1>5, <1>7 DEF VerifyInv, ProgressInv
  <2>3. Done' = Done
    <3>1. ASSUME NEW i \in 1..Len(Ranges), NEW o \in Covered(Ranges[i])
          PROVE  (i < index + 1 \/ (i = index + 1 /\ o < Ranges[i][1] + 0))
                   <=> (i < index \/ (i = index /\ o < Ranges[i][1] + inner))
      <4>1. Ranges[i][1] \in Nat /\ Ranges[i][2] \in Nat
        BY <1>4
      <4>2. o \in Nat /\ o >= Ranges[i][1] /\ o < Ranges[i][1] + Ranges[i][2]
        BY <3>1, <4>1 DEF Covered
      <4> QED
        BY <1>5, <2>2, <4>1, <4>2
    <3>2. Done' = {o \in Nat : \E i \in 1..Len(Ranges) :
                     o \in Covered(Ranges[i])
                     /\ (i < index + 1 \/ (i = index + 1 /\ o < Ranges[i][1] + 0))}
      BY <1>3, <1>7 DEF Done, Covered
    <3> QED
      BY <3>1, <3>2 DEF Done
  <2>4. ProgressInv'
    <3>1. index' \in 1..Len(Ranges) => Ranges[index'][2] \in Nat
      BY <1>4
    <3> QED
      BY <1>1, <1>3, <1>4, <1>5, <1>7, <2>2, <2>3, <3>1 DEF VerifyInv, ProgressInv
  <2>5. PieceInv' /\ SpanInv' /\ VerdictIsTrue' /\ outcome' = "none"
    BY <1>1, <1>2, <1>3, <1>7 DEF PieceInv, SpanInv, VerdictIsTrue, span
  <2> QED
    BY <2>1, <2>4, <2>5 DEF VerifyInv
<1>8. CASE /\ index <= Len(Ranges) /\ inner < Ranges[index][2]
           /\ IF cancel THEN Finish("Cancelled") ELSE pc' = "source" /\ UNCHANGED outcome
           /\ UNCHANGED <<index, inner>>
  <2>1. UNCHANGED progress /\ UNCHANGED <<buffer, cancel, mismatch>>
    BY <1>1, <1>8 DEF progress, span
  <2>2. \/ pc' = "done" /\ outcome' = "Cancelled"
        \/ pc' = "source" /\ outcome' = outcome
    BY <1>8 DEF Finish
  <2>3. TypeOK'
    BY <1>1, <2>1, <2>2 DEF VerifyInv, TypeOK, Outcomes, request, span, progress
  <2> QED
    BY <1>1, <1>2, <1>8, <2>1, <2>2, <2>3, Goes
<1> QED
  BY <1>6, <1>7, <1>8 DEF NextChunk

LEMMA ReadSourceKeeps == VerifyInv /\ ReadSource => VerifyInv'
<1> SUFFICES ASSUME VerifyInv, ReadSource PROVE VerifyInv'
  OBVIOUS
<1>1. UNCHANGED request /\ UNCHANGED progress /\ UNCHANGED span /\ UNCHANGED <<cancel, mismatch>>
  BY DEF ReadSource
<1>2. pc = "source" /\ index <= Len(Ranges) /\ inner < Ranges[index][2]
  BY DEF ReadSource, VerifyInv, PieceInv
<1>3. \/ pc' = "done" /\ outcome' \in {"SourceUnexpectedEof", "SourceReadError"}
      \/ pc' = "span" /\ outcome' = outcome
  BY DEF ReadSource, Finish
<1>4. TypeOK' /\ UNCHANGED buffer
  BY <1>1, <1>3 DEF VerifyInv, TypeOK, Outcomes, request, span, progress
<1> QED
  BY <1>1, <1>2, <1>3, <1>4, Goes

LEMMA DeviceFailsKeeps == VerifyInv /\ DeviceFails => VerifyInv'
<1> SUFFICES ASSUME VerifyInv, DeviceFails PROVE VerifyInv'
  OBVIOUS
<1>1. UNCHANGED request /\ UNCHANGED progress /\ UNCHANGED span /\ UNCHANGED <<cancel, mismatch>>
  BY DEF DeviceFails
<1>2. pc = "read" /\ pc' = "done" /\ outcome' = "TargetReadError"
  BY DEF DeviceFails, Finish
<1>3. TypeOK' /\ UNCHANGED buffer
  BY <1>1, <1>2 DEF VerifyInv, TypeOK, Outcomes, request, span, progress
<1> QED
  BY <1>1, <1>2, <1>3, Goes

LEMMA BeginSpanKeeps == VerifyInv /\ BeginSpan => VerifyInv'
<1> SUFFICES ASSUME VerifyInv, BeginSpan PROVE VerifyInv'
  OBVIOUS
<1> DEFINE b == geometry.block
           from == SpanStart(At)
           to == SpanEnd(At, Want)
<1>1. UNCHANGED request /\ UNCHANGED progress /\ UNCHANGED <<buffer, cancel, mismatch>>
  BY DEF BeginSpan
<1>2. /\ pc = "span" /\ outcome = "none" /\ Usable(geometry)
      /\ index <= Len(Ranges) /\ inner < Ranges[index][2] /\ buffer \in [1..BufferLen -> Int]
  BY DEF BeginSpan, VerifyInv, PieceInv
<1>3. /\ b \in Nat \ {0} /\ At \in Nat /\ Want \in Nat \ {0} /\ Want <= Chunk
      /\ At + Want <= size /\ size <= capacity /\ capacity \in Nat /\ size \in Nat
      /\ Chunk \in Nat \ {0}
  BY <1>2, UsableGeometry, PieceInRange, TypedRanges DEF VerifyInv, TypeOK
<1>4. /\ from \in Nat /\ to \in Nat /\ from <= to /\ to - from <= BufferLen
      /\ (to > capacity => capacity % b # 0)
  <2>1. /\ from \in Nat /\ from <= At /\ At + Want <= to /\ to - from <= BufferLen
    BY <1>3, SpanFits DEF SpanStart, SpanEnd, BufferLen
  <2>2. At + Want \in Nat /\ At + Want <= capacity
    BY <1>3
  <2>3. to \in Nat
    BY <1>3, <2>2, RoundsUp DEF SpanEnd
  <2>4. capacity % b = 0 => to <= capacity
    BY <1>3, <2>2, RoundsUpWithin DEF SpanEnd
  <2> HIDE DEF from, to
  <2> QED
    BY <1>3, <2>1, <2>3, <2>4
<1>5. \/ /\ to > capacity /\ pc' = "done" /\ outcome' = "OutsideDevice"
         /\ UNCHANGED <<start, len, filled>>
      \/ /\ to <= capacity /\ pc' = "read" /\ outcome' = outcome
         /\ start' = from /\ len' = to - from /\ filled' = 0
  <2> HIDE DEF from, to
  <2>1. \/ to > capacity /\ Finish("OutsideDevice") /\ UNCHANGED <<start, len, filled>>
        \/ /\ ~(to > capacity) /\ start' = from /\ len' = to - from /\ filled' = 0
           /\ pc' = "read" /\ UNCHANGED outcome
    <3>1. BufferLen \in Nat
      BY <1>2, BufferTyped DEF VerifyInv
    <3> QED
      BY <1>4, <3>1 DEF BeginSpan, from, to
  <2> QED
    BY <1>3, <1>4, <2>1 DEF Finish
<1> HIDE DEF from, to, b
<1>6. TypeOK'
  BY <1>1, <1>4, <1>5 DEF VerifyInv, TypeOK, Outcomes, request, progress
<1>7. /\ ProgressInv' /\ At' = At /\ Want' = Want /\ Ranges' = Ranges
      /\ BufferLen' = BufferLen /\ Usable(geometry)' = Usable(geometry)
  BY <1>1, <1>2, SameProgress, SameRequest DEF VerifyInv
<1>8. PieceInv'
  BY <1>1, <1>2, <1>7 DEF PieceInv, progress
<1>9. SpanInv'
  <2>1. SpanStart(At)' = from /\ SpanEnd(At, Want)' = to /\ geometry' = geometry /\ capacity' = capacity
    BY <1>1, <1>7 DEF SpanStart, SpanEnd, from, to, request
  <2>2. CASE pc' = "read"
    <3>1. start' = from /\ len' = to - from /\ filled' = 0 /\ to <= capacity
      BY <1>5, <2>2
    <3>2. start' + len' = to /\ len' <= BufferLen
      BY <1>4, <3>1
    <3>3. filled' % geometry.block = 0 /\ filled' % geometry.memory = 0
      BY <1>2, <3>1, UsableGeometry DEF VerifyInv
    <3> QED
      BY <1>3, <1>4, <1>7, <2>1, <3>1, <3>2, <3>3 DEF SpanInv
  <2> QED
    BY <2>2 DEF SpanInv
<1>10. VerdictIsTrue'
  <2>1. capacity' % geometry'.block = capacity % b
    BY <1>1 DEF request, b
  <2> QED
    BY <1>2, <1>4, <1>5, <2>1 DEF VerdictIsTrue
<1> QED
  BY <1>2, <1>5, <1>6, <1>7, <1>8, <1>9, <1>10 DEF VerifyInv

LEMMA ReadDeviceKeeps == VerifyInv /\ ReadDevice => VerifyInv'
<1> SUFFICES ASSUME VerifyInv, ReadDevice PROVE VerifyInv'
  OBVIOUS
<1>1. UNCHANGED request /\ UNCHANGED progress /\ UNCHANGED <<start, len, cancel, mismatch>>
  BY DEF ReadDevice
<1>2. /\ pc = "read" /\ filled < len /\ outcome = "none" /\ Usable(geometry)
      /\ index <= Len(Ranges) /\ inner < Ranges[index][2] /\ buffer \in [1..BufferLen -> Int]
      /\ start \in Nat /\ len \in Nat /\ filled \in 0..len /\ len <= BufferLen
      /\ \A i \in 1..filled : buffer[i] = start + i - 1
      /\ filled % geometry.block = 0 /\ filled % geometry.memory = 0
  BY DEF ReadDevice, VerifyInv, PieceInv, SpanInv, TypeOK
<1>3. /\ geometry.block \in Nat \ {0} /\ geometry.memory \in Nat \ {0} /\ MaxRead \in Nat \ {0}
      /\ BufferLen \in Nat /\ \A f \in [1..BufferLen -> Int] : f \in Seq(Int)
  BY <1>2, UsableGeometry, BufferTyped DEF VerifyInv
<1>4. Piece \in Nat /\ filled + Piece <= len
  BY <1>2, <1>3 DEF Piece, Lesser
<1>5. PICK n \in 0..Piece :
        IF n = 0 THEN Finish("TargetUnexpectedEof") /\ UNCHANGED <<buffer, filled>>
        ELSE /\ buffer' = [i \in DOMAIN buffer |->
                             IF i \in (filled + 1)..(filled + n) THEN start + i - 1 ELSE buffer[i]]
             /\ filled' = filled + n
             /\ IF filled + n < len /\ Unaligned(n) THEN Finish("UnalignedShortRead")
                                                   ELSE UNCHANGED <<pc, outcome>>
  BY DEF ReadDevice
<1>6. CASE n = 0
  <2>1. pc' = "done" /\ outcome' = "TargetUnexpectedEof" /\ UNCHANGED <<buffer, filled>>
    BY <1>5, <1>6 DEF Finish
  <2>2. TypeOK'
    BY <1>1, <2>1 DEF VerifyInv, TypeOK, Outcomes, request, progress
  <2> QED
    BY <1>1, <1>2, <2>1, <2>2, Goes
<1>7. CASE n # 0
  <2>1. /\ filled' = filled + n /\ filled' \in 0..len /\ n \in Nat \ {0}
        /\ buffer' = [i \in 1..BufferLen |->
                        IF i \in (filled + 1)..(filled + n) THEN start + i - 1 ELSE buffer[i]]
    BY <1>2, <1>4, <1>5, <1>7
  <2>2. buffer' \in [1..BufferLen -> Int] /\ \A i \in 1..filled' : buffer'[i] = start + i - 1
    <3>1. \A i \in 1..BufferLen : start + i - 1 \in Int /\ buffer[i] \in Int
      BY <1>2, <1>3
    <3>2. buffer' \in [1..BufferLen -> Int]
      BY <2>1, <3>1
    <3>3. ASSUME NEW i \in 1..filled' PROVE buffer'[i] = start + i - 1
      <4>1. i \in 1..BufferLen /\ (i \in (filled + 1)..(filled + n) \/ i \in 1..filled)
        BY <1>2, <1>3, <2>1, <3>3
      <4> QED
        BY <1>2, <2>1, <4>1
    <3> QED
      BY <3>2, <3>3
  <2>3. \/ pc' = "done" /\ outcome' = "UnalignedShortRead"
        \/ pc' = "read" /\ outcome' = outcome /\ (filled' < len => ~Unaligned(n))
    BY <1>2, <1>5, <1>7, <2>1 DEF Finish
  <2>4. TypeOK'
    <3>1. buffer' \in Seq(Int)
      BY <1>3, <2>2
    <3> QED
      BY <1>1, <2>1, <2>3, <3>1 DEF VerifyInv, TypeOK, Outcomes, request, progress
  <2>5. /\ ProgressInv' /\ At' = At /\ Want' = Want /\ Ranges' = Ranges
        /\ BufferLen' = BufferLen /\ Usable(geometry)' = Usable(geometry)
    BY <1>1, <1>2, SameProgress, SameRequest DEF VerifyInv
  <2>6. PieceInv'
    BY <1>1, <1>2, <2>2, <2>5 DEF PieceInv, progress
  <2>7. SpanInv'
    <3> SUFFICES ASSUME pc' = "read" PROVE SpanInv'
      BY DEF SpanInv
    <3>1. /\ start = SpanStart(At) /\ start + len = SpanEnd(At, Want) /\ start + len <= capacity
      BY <1>2 DEF VerifyInv, SpanInv
    <3>2. SpanStart(At)' = SpanStart(At) /\ SpanEnd(At, Want)' = SpanEnd(At, Want)
          /\ geometry' = geometry /\ capacity' = capacity
      BY <1>1, <2>5 DEF SpanStart, SpanEnd, request
    <3>3. filled' < len => filled' % geometry.block = 0 /\ filled' % geometry.memory = 0
      <4>1. filled' < len => n % geometry.block = 0 /\ filled' % geometry.memory = 0
        BY <2>1, <2>3 DEF Unaligned
      <4>2. n % geometry.block = 0 => (filled + n) % geometry.block = 0
        <5>1. filled \in Nat /\ n \in Nat
          BY <1>2, <2>1
        <5> QED
          BY <1>2, <1>3, <5>1, WholeBlocks
      <4> QED
        BY <2>1, <4>1, <4>2
    <3> QED
      BY <1>1, <1>2, <2>2, <2>5, <3>1, <3>2, <3>3 DEF SpanInv
  <2>8. VerdictIsTrue' /\ (pc' # "done" => outcome' = "none")
    BY <1>2, <2>3 DEF VerdictIsTrue
  <2> QED
    BY <2>4, <2>5, <2>6, <2>7, <2>8 DEF VerifyInv
<1> QED
  BY <1>6, <1>7

\* What a complete span returns of the wanted bytes are those bytes.
LEMMA ReturnedIsWanted ==
  ASSUME VerifyInv, pc = "read", filled >= len
  PROVE  \A i \in 1..Want : Returned(i) = At + i - 1
<1>1. /\ Usable(geometry) /\ index <= Len(Ranges) /\ inner < Ranges[index][2]
      /\ start = SpanStart(At) /\ start + len = SpanEnd(At, Want)
      /\ start \in Nat /\ len \in Nat /\ filled \in 0..len
      /\ \A i \in 1..filled : buffer[i] = start + i - 1
  BY DEF VerifyInv, PieceInv, SpanInv, TypeOK
<1>2. geometry.block \in Nat \ {0} /\ At \in Nat /\ Want \in Nat \ {0} /\ Chunk \in Nat /\ Want <= Chunk
  BY <1>1, UsableGeometry, PieceInRange, TypedRanges DEF VerifyInv
<1>3. start <= At /\ At + Want <= start + len
  <2> DEFINE b == geometry.block
  <2>1. b \in Nat \ {0} /\ At \in Nat /\ Want \in Nat /\ Chunk \in Nat /\ Want <= Chunk
    BY <1>2
  <2>2. start = At - (At % b) /\ start + len = RoundedUp(At + Want, b)
    BY <1>1 DEF SpanStart, SpanEnd
  <2> HIDE DEF b
  <2>3. At - (At % b) <= At /\ At + Want <= RoundedUp(At + Want, b)
    BY <2>1, SpanFits
  <2> QED
    BY <2>2, <2>3
<1>4. ASSUME NEW i \in 1..Want PROVE At - start + i \in 1..filled
  <2> DEFINE at == At
             want == Want
  <2>1. /\ at \in Nat /\ want \in Nat /\ start \in Nat /\ len \in Nat /\ filled \in Nat
        /\ i \in 1..want /\ filled >= len /\ start <= at /\ at + want <= start + len
    BY <1>1, <1>2, <1>3
  <2> HIDE DEF at, want
  <2>2. at - start + i \in 1..filled
    BY <2>1
  <2> QED
    BY <2>2 DEF at
<1>5. ASSUME NEW i \in 1..Want PROVE start + (At - start + i) - 1 = At + i - 1
  BY <1>1, <1>2
<1> QED
  BY <1>1, <1>4, <1>5 DEF Returned

\* What is done lies before what is compared next, and nothing promised lies between.
LEMMA DoneIsBefore ==
  ASSUME TypeOK, index <= Len(Ranges), inner < Ranges[index][2]
  PROVE  /\ \A o \in Done : o < At /\ o \in Promised
         /\ \A o \in Promised : o < At + Want => o \in Done \/ o >= At
<1>1. /\ index \in 1..Len(Ranges) /\ inner \in Nat /\ Tiles(Ranges, size, Promised)
      /\ \A i \in 1..Len(Ranges) : Ranges[i][1] \in Nat /\ Ranges[i][2] \in Nat
  BY TypedRanges DEF TypeOK
<1>2. /\ At = Ranges[index][1] + inner /\ At \in Nat /\ Want \in Nat
      /\ At + Want <= Ranges[index][1] + Ranges[index][2]
  BY PieceInRange DEF At
<1>3. ASSUME NEW o \in Done PROVE o < At /\ o \in Promised
  <2>1. PICK i \in 1..Len(Ranges) :
          o \in Covered(Ranges[i]) /\ (i < index \/ (i = index /\ o < Ranges[i][1] + inner))
    BY DEF Done
  <2>2. o \in Promised /\ o \in Nat
    BY <1>1, <2>1 DEF Tiles, Done
  <2>3. CASE i < index
    <3>1. Ranges[i][1] + Ranges[i][2] <= Ranges[index][1]
      BY <1>1, <2>3 DEF Tiles
    <3> DEFINE last == Ranges[i][1] + Ranges[i][2]
               from == Ranges[index][1]
               beginning == Ranges[i][1]
    <3>2. o < last /\ last \in Nat /\ from \in Nat /\ last <= from /\ At = from + inner
      <4>1. Ranges[i][1] \in Nat /\ Ranges[i][2] \in Nat /\ from \in Nat
        BY <1>1
      <4>2. last \in Nat
        BY <4>1
      <4>3. o \in beginning..(last - 1) /\ beginning \in Nat
        BY <2>1, <4>1 DEF Covered
      <4>4. last <= from /\ At = from + inner
        BY <1>2, <3>1
      <4> HIDE DEF last, from, beginning
      <4> QED
        BY <4>1, <4>2, <4>3, <4>4
    <3> HIDE DEF last, from
    <3>3. o < At
      BY <1>1, <2>2, <3>2
    <3> QED
      BY <2>2, <3>3
  <2> QED
    BY <1>2, <2>1, <2>2, <2>3
<1>4. ASSUME NEW o \in Promised, o < At + Want, ~(o >= At) PROVE o \in Done
  <2>1. PICK i \in 1..Len(Ranges) : o \in Covered(Ranges[i])
    BY <1>1 DEF Tiles
  <2>2. o \in Nat /\ o >= Ranges[i][1]
    BY <1>1, <2>1 DEF Tiles, Covered
  <2>3. ~(index < i)
    <3> SUFFICES ASSUME index < i PROVE FALSE
      OBVIOUS
    <3>1. Ranges[index][1] + Ranges[index][2] <= Ranges[i][1]
      BY <1>1 DEF Tiles
    <3> DEFINE last == Ranges[index][1] + Ranges[index][2]
               from == Ranges[i][1]
    <3>2. last \in Nat /\ from \in Nat /\ last <= from /\ from <= o /\ At + Want <= last
      <4>1. Ranges[index][1] \in Nat /\ Ranges[index][2] \in Nat /\ from \in Nat
        BY <1>1
      <4>2. last \in Nat
        BY <4>1
      <4> QED
        BY <1>2, <2>2, <3>1, <4>1, <4>2
    <3> HIDE DEF last, from
    <3> QED
      BY <1>2, <1>4, <2>2, <3>2
  <2>4. i < index \/ (i = index /\ o < Ranges[i][1] + inner)
    BY <1>1, <1>2, <1>4, <2>2, <2>3
  <2> QED
    BY <2>1, <2>2, <2>4 DEF Done
<1>5. \A o \in Promised : o \in Nat
  BY <1>1 DEF Tiles
<1> QED
  BY <1>2, <1>3, <1>4, <1>5

\* The bytes of the chunk that are found equal are the device's at their own offsets.
LEMMA FoundInPlace ==
  ASSUME VerifyInv, pc = "read", filled >= len, NEW n \in 0..Want
  PROVE  FoundEqual(n) = {<<o, o>> : o \in At..(At + n - 1)}
<1>1. \A i \in 1..Want : Returned(i) = At + i - 1
  BY ReturnedIsWanted
<1>2. At \in Nat /\ Want \in Nat
  BY PieceInRange DEF VerifyInv, PieceInv
<1>3. FoundEqual(n) = {<<At + i - 1, At + i - 1>> : i \in 1..n}
  <2>1. \A i \in 1..n : i \in 1..Want
    BY <1>2
  <2>2. \A i \in 1..n : Returned(i) = At + i - 1
    BY <1>1, <2>1
  <2> QED
    BY <2>2, Zenon DEF FoundEqual
<1>4. \A o \in At..(At + n - 1) : o - At + 1 \in 1..n /\ At + (o - At + 1) - 1 = o
  BY <1>2
<1>5. \A i \in 1..n : At + i - 1 \in At..(At + n - 1)
  BY <1>2
<1> DEFINE piece == At..(At + n - 1)
<1> HIDE DEF piece
<1> QED
  BY <1>3, <1>4, <1>5 DEF piece

LEMMA CompareKeeps == VerifyInv /\ Compare => VerifyInv'
<1> SUFFICES ASSUME VerifyInv, Compare PROVE VerifyInv'
  OBVIOUS
<1>1. UNCHANGED request /\ UNCHANGED span /\ UNCHANGED cancel
  BY DEF Compare
<1>2. /\ pc = "read" /\ filled >= len /\ outcome = "none" /\ Usable(geometry)
      /\ index <= Len(Ranges) /\ inner < Ranges[index][2] /\ buffer \in [1..BufferLen -> Int]
  BY DEF Compare, VerifyInv, PieceInv
<1>3. \A n \in 0..Want : FoundEqual(n) = {<<o, o>> : o \in At..(At + n - 1)}
  BY <1>2, FoundInPlace
<1>4. /\ At \in Nat /\ Want \in Nat \ {0}
      /\ At + Want <= Ranges[index][1] + Ranges[index][2] /\ inner + Want <= Ranges[index][2]
      /\ At..(At + Want - 1) \subseteq Promised
  BY <1>2, PieceInRange DEF VerifyInv
<1>5. /\ Ranges' = Ranges /\ Promised' = Promised /\ BufferLen' = BufferLen
      /\ Usable(geometry)' = Usable(geometry)
  BY <1>1, SameRequest
<1>6. CASE \E i \in 1..Want :
             /\ mismatch' = <<At + i - 1, Returned(i)>> /\ Finish("Mismatch")
             /\ compared' = compared \cup FoundEqual(i - 1)
             /\ UNCHANGED <<index, inner, verified>>
  <2>1. PICK i \in 1..Want :
          /\ mismatch' = <<At + i - 1, Returned(i)>> /\ Finish("Mismatch")
          /\ compared' = compared \cup FoundEqual(i - 1)
          /\ UNCHANGED <<index, inner, verified>>
    BY <1>6
  <2> DEFINE q == At + i - 1
             before == {p \in Promised : p < q}
  <2>2. pc' = "done" /\ outcome' = "Mismatch" /\ q \in At..(At + Want - 1) /\ q \in Nat
    BY <1>4, <2>1 DEF Finish
  <2>3. mismatch' = <<q, q>> /\ q \in Promised
    BY <1>2, <1>4, <2>1, <2>2, ReturnedIsWanted
  <2>4. compared' = {<<o, o>> : o \in Done} \cup {<<o, o>> : o \in At..(q - 1)}
    <3>1. compared = {<<o, o>> : o \in Done}
      BY <1>2 DEF VerifyInv, ProgressInv
    <3>2. i - 1 \in 0..Want /\ At + (i - 1) - 1 = q - 1
      BY <1>4
    <3>3. FoundEqual(i - 1) = {<<o, o>> : o \in At..(q - 1)}
      BY <1>3, <3>2
    <3> QED
      BY <2>1, <3>1, <3>3
  <2>5. before = Done \cup At..(q - 1)
    <3>1. /\ \A o \in Done : o < At /\ o \in Promised
          /\ \A o \in Promised : o < At + Want => o \in Done \/ o >= At
          /\ \A o \in Promised : o \in Nat
      BY <1>2, DoneIsBefore, TypedRanges DEF VerifyInv, Tiles
    <3>2. ASSUME NEW o \in before PROVE o \in Done \cup At..(q - 1)
      <4>1. o \in Promised /\ o \in Nat /\ o < q /\ o < At + Want
        BY <1>4, <2>2, <3>1
      <4>2. o \in Done \/ o >= At
        BY <3>1, <4>1
      <4> QED
        BY <1>4, <2>2, <4>1, <4>2
    <3>3. ASSUME NEW o \in Done PROVE o \in before
      <4>1. o \in Promised /\ o \in Nat /\ o < At
        BY <3>1
      <4> QED
        BY <1>4, <2>2, <4>1
    <3>4. ASSUME NEW o \in At..(q - 1) PROVE o \in before
      <4>1. o \in At..(At + Want - 1) /\ o < q
        BY <1>4, <2>2
      <4> QED
        BY <1>4, <4>1
    <3> HIDE DEF before, q
    <3> QED
      BY <3>2, <3>3, <3>4
  <2>6. compared' = {<<o, o>> : o \in before}
    <3> HIDE DEF before, q
    <3> QED
      BY <2>4, <2>5
  <2>7. TypeOK'
    <3>1. before \subseteq Nat
      BY TypedRanges DEF VerifyInv, Tiles
    <3>2. compared' \subseteq (Nat \X Int) /\ mismatch' \in (Nat \X Int)
      <4> HIDE DEF before, q
      <4> QED
        BY <2>2, <2>3, <2>6, <3>1
    <3> QED
      BY <1>1, <2>1, <2>2, <3>2 DEF VerifyInv, TypeOK, Outcomes, request, span
  <2>8. ProgressInv'
    <3>1. Done' = Done
      BY <1>5, <2>1 DEF Done, Covered
    <3> QED
      BY <1>5, <2>1, <2>2, <3>1 DEF VerifyInv, ProgressInv
  <2>9. PieceInv' /\ SpanInv'
    BY <2>2 DEF PieceInv, SpanInv
  <2>10. VerdictIsTrue'
    <3>1. compared' = {<<o, o>> : o \in {p \in Promised' : p < mismatch'[1]}}
      <4>1. mismatch'[1] = q /\ mismatch'[2] = q
        BY <2>3
      <4> QED
        BY <1>5, <2>6, <4>1
    <3> QED
      BY <1>5, <2>2, <2>3, <3>1 DEF VerdictIsTrue
  <2> QED
    BY <2>2, <2>7, <2>8, <2>9, <2>10 DEF VerifyInv
<1>7. CASE /\ compared' = compared \cup FoundEqual(Want)
           /\ inner' = inner + Want /\ verified' = verified + Want /\ pc' = "loop"
           /\ UNCHANGED <<outcome, index, mismatch>>
  <2> DEFINE piece == At..(At + Want - 1)
  <2>1. FoundEqual(Want) = {<<o, o>> : o \in piece}
    BY <1>3, <1>4
  <2>2. index \in 1..Len(Ranges) /\ inner \in Nat /\ Len(Ranges) \in Nat
    BY <1>2, TypedRanges DEF VerifyInv, TypeOK
  <2>3. /\ Tiles(Ranges, size, Promised)
        /\ \A i \in 1..Len(Ranges) : Ranges[i][1] \in Nat /\ Ranges[i][2] \in Nat
    BY TypedRanges DEF VerifyInv
  <2>4. At = Ranges[index][1] + inner
    BY DEF At
  <2>5. Done' = Done \cup piece
    <3>1. Done' = {o \in Nat : \E i \in 1..Len(Ranges) :
                     o \in Covered(Ranges[i])
                     /\ (i < index \/ (i = index /\ o < Ranges[i][1] + (inner + Want)))}
      BY <1>5, <1>7 DEF Done, Covered
    <3>2. Covered(Ranges[index]) = Ranges[index][1]..(Ranges[index][1] + Ranges[index][2] - 1)
          /\ Ranges[index][1] \in Nat /\ Ranges[index][2] \in Nat
      BY <2>2, <2>3 DEF Covered
    <3>3. ASSUME NEW o \in Nat
          PROVE  (o \in Covered(Ranges[index]) /\ o < Ranges[index][1] + (inner + Want))
                   <=> (o \in Covered(Ranges[index]) /\ o < Ranges[index][1] + inner) \/ o \in piece
      <4> DEFINE from == Ranges[index][1]
                 n == Ranges[index][2]
      <4>1. /\ from \in Nat /\ n \in Nat /\ At = from + inner /\ At + Want <= from + n
            /\ Covered(Ranges[index]) = from..(from + n - 1)
        BY <1>4, <2>4, <3>2
      <4> HIDE DEF from, n
      <4> DEFINE want == Want
                 at == At
      <4>2. at \in Nat /\ want \in Nat \ {0} /\ piece = at..(at + want - 1)
        BY <1>4
      <4>3. at = from + inner /\ at + want <= from + n
        BY <4>1
      <4> HIDE DEF want, at, piece
      <4>4. (o \in from..(from + n - 1) /\ o < from + (inner + want))
              <=> (o \in from..(from + n - 1) /\ o < from + inner) \/ o \in piece
        BY <2>2, <4>1, <4>2, <4>3
      <4>5. (o \in from..(from + n - 1) /\ o < from + (inner + Want))
              <=> (o \in from..(from + n - 1) /\ o < from + inner) \/ o \in piece
        BY <4>4 DEF want
      <4> QED
        BY <4>1, <4>5 DEF from, n
    <3>4. piece \subseteq Nat
      BY <1>4
    <3> HIDE DEF piece
    <3>5. ASSUME NEW o \in Nat PROVE o \in Done' <=> o \in Done \/ o \in piece
      BY <2>2, <3>1, <3>3 DEF Done
    <3> QED
      BY <3>1, <3>4, <3>5 DEF Done
  <2>6. Done \cap piece = {}
    <3> SUFFICES ASSUME NEW o \in Done, o \in piece PROVE FALSE
      OBVIOUS
    <3>1. o < At
      BY <1>2, DoneIsBefore DEF VerifyInv
    <3>2. o \in Nat /\ o >= At
      BY <1>4
    <3> QED
      BY <1>4, <3>1, <3>2
  <2>7. IsFiniteSet(piece) /\ Cardinality(piece) = Want
    <3> DEFINE a == At
               b == At + Want - 1
    <3>1. a \in Int /\ b \in Int /\ ~(a > b) /\ b - a + 1 = Want /\ piece = a..b
      BY <1>4
    <3> HIDE DEF a, b, piece
    <3>2. IsFiniteSet(a..b) /\ Cardinality(a..b) = IF a > b THEN 0 ELSE b - a + 1
      BY <3>1, FS_Interval
    <3> QED
      BY <3>1, <3>2
  <2>8. /\ compared = {<<o, o>> : o \in Done} /\ IsFiniteSet(Done) /\ verified = Cardinality(Done)
        /\ verified \in Nat
    BY <1>2 DEF VerifyInv, ProgressInv, TypeOK
  <2>9. IsFiniteSet(Done \cup piece) /\ Cardinality(Done \cup piece) = verified + Want
    <3>1. Cardinality(Done \cap piece) = 0
      BY <2>6, FS_EmptySet
    <3> HIDE DEF piece
    <3>2. /\ IsFiniteSet(Done \cup piece)
          /\ Cardinality(Done \cup piece) = Cardinality(Done) + Cardinality(piece) - Cardinality(Done \cap piece)
      BY <2>7, <2>8, FS_Union
    <3>3. verified + Want - 0 = verified + Want
      BY <1>4, <2>8
    <3> QED
      BY <2>7, <2>8, <3>1, <3>2, <3>3
  <2>10. ProgressInv'
    <3>1. compared' = {<<o, o>> : o \in Done'}
      <4> HIDE DEF piece
      <4> QED
        BY <1>7, <2>1, <2>5, <2>8
    <3>2. inner' <= Ranges[index][2] /\ index' = index
      BY <1>4, <1>7
    <3> HIDE DEF piece
    <3> QED
      BY <1>5, <1>7, <2>2, <2>5, <2>9, <3>1, <3>2 DEF ProgressInv
  <2>11. TypeOK'
    <3>1. piece \subseteq Nat
      BY <1>4
    <3>2. compared' \subseteq (Nat \X Int)
      <4> HIDE DEF piece
      <4> QED
        BY <1>7, <2>1, <3>1 DEF VerifyInv, TypeOK
    <3>3. inner' \in Nat /\ verified' \in Nat
      BY <1>4, <1>7, <2>2, <2>8
    <3> QED
      BY <1>1, <1>7, <3>2, <3>3 DEF VerifyInv, TypeOK, request, span
  <2>12. PieceInv' /\ SpanInv' /\ VerdictIsTrue' /\ outcome' = "none"
    BY <1>1, <1>2, <1>5, <1>7 DEF PieceInv, SpanInv, VerdictIsTrue, span
  <2> QED
    BY <2>10, <2>11, <2>12 DEF VerifyInv
<1> QED
  BY <1>6, <1>7 DEF Compare

LEMMA CancelKeeps == VerifyInv /\ (RequestCancel \/ UNCHANGED vars) => VerifyInv'
<1> SUFFICES ASSUME VerifyInv, RequestCancel \/ UNCHANGED vars PROVE VerifyInv'
  OBVIOUS
<1>1. /\ UNCHANGED request /\ UNCHANGED progress /\ UNCHANGED span
      /\ UNCHANGED <<pc, outcome, mismatch>> /\ cancel' \in BOOLEAN
  BY DEF RequestCancel, vars, VerifyInv, TypeOK
<1>2. TypeOK'
  BY <1>1 DEF VerifyInv, TypeOK, request, progress, span
<1>3. /\ ProgressInv' /\ At' = At /\ Want' = Want /\ Ranges' = Ranges
      /\ BufferLen' = BufferLen /\ Usable(geometry)' = Usable(geometry)
  BY <1>1, SameProgress, SameRequest DEF VerifyInv
<1>4. PieceInv'
  BY <1>1, <1>3 DEF VerifyInv, PieceInv, progress, span
<1>5. SpanInv'
  <2>1. SpanStart(At)' = SpanStart(At) /\ SpanEnd(At, Want)' = SpanEnd(At, Want)
        /\ geometry' = geometry /\ capacity' = capacity
    BY <1>1, <1>3 DEF SpanStart, SpanEnd, request
  <2> QED
    BY <1>1, <1>3, <2>1 DEF VerifyInv, SpanInv, span
<1>6. VerdictIsTrue'
  BY <1>1, SameOutcome DEF VerifyInv
<1> QED
  BY <1>1, <1>2, <1>3, <1>4, <1>5, <1>6 DEF VerifyInv

LEMMA VerifyKeeps == VerifyInv /\ [Next]_vars => VerifyInv'
BY QueryKeeps, BeginKeeps, NextChunkKeeps, ReadSourceKeeps, BeginSpanKeeps, ReadDeviceKeeps,
   DeviceFailsKeeps, CompareKeeps, CancelKeeps DEF Next

-----------------------------------------------------------------------------
(* What Verify keeps.                                                      *)

\* A read that may begin on the next place keeps the rules there.
LEMMA RulesFollow == VerifyInv => ReadsFollowTheRules
<1> SUFFICES ASSUME VerifyInv, pc = "read", filled < len
             PROVE  /\ (start + filled) % geometry.block = 0
                    /\ Piece % geometry.block = 0 /\ Piece \in 1..MaxRead
                    /\ (Alignment + filled) % geometry.memory = 0
                    /\ Alignment % geometry.memory = 0
                    /\ start + filled + Piece <= capacity
                    /\ filled + Piece <= BufferLen
  BY DEF ReadsFollowTheRules
<1>1. /\ Usable(geometry) /\ index <= Len(Ranges) /\ inner < Ranges[index][2]
      /\ start = SpanStart(At) /\ start + len = SpanEnd(At, Want)
      /\ start \in Nat /\ len \in Nat /\ filled \in 0..len
      /\ len <= BufferLen /\ start + len <= capacity
      /\ filled % geometry.block = 0 /\ filled % geometry.memory = 0
  BY DEF VerifyInv, PieceInv, SpanInv, TypeOK
<1>2. /\ geometry.block \in Nat \ {0} /\ geometry.memory \in Nat \ {0}
      /\ MaxRead \in Nat \ {0} /\ MaxRead % geometry.block = 0
      /\ Alignment \in Nat \ {0} /\ Alignment % geometry.memory = 0
      /\ At \in Nat /\ Want \in Nat \ {0} /\ Chunk \in Nat /\ Want <= Chunk
      /\ BufferLen \in Nat /\ capacity \in Nat
  BY <1>1, UsableGeometry, PieceInRange, TypedRanges, BufferTyped DEF VerifyInv
<1>3. start % geometry.block = 0 /\ len % geometry.block = 0
  <2> DEFINE b == geometry.block
             at == At
             end == At + Want
             i == At \div b
             r == At % b
  <2>1. b \in Nat \ {0} /\ at \in Nat /\ end \in Nat
    BY <1>2
  <2>2. start = at - r /\ start + len = RoundedUp(end, b)
    BY <1>1 DEF SpanStart, SpanEnd
  <2>3. i \in Nat /\ r \in 0..(b - 1) /\ at = i * b + r
    <3> HIDE DEF b
    <3> QED
      BY <2>1, Division
  <2> HIDE DEF b, at, end, i, r
  <2>4. start = i * b
    <3> DEFINE n == i * b
    <3>1. n \in Nat /\ r \in Nat /\ at = n + r
      BY <2>1, <2>3
    <3> HIDE DEF n
    <3>2. start = n
      BY <2>2, <3>1
    <3> QED
      BY <3>2 DEF n
  <2>5. PICK k \in Nat : RoundedUp(end, b) = k * b
    BY <2>1, RoundsUp
  <2>6. start % b = 0 /\ (start + len) % b = 0
    BY <2>1, <2>2, <2>3, <2>4, <2>5, MultiplesDivide
  <2>7. len % b = 0
    <3> DEFINE stop == start + len
    <3>1. /\ stop \in Nat /\ start <= stop /\ start \in Nat /\ stop % b = 0
          /\ stop - start = len
      BY <1>1, <2>6
    <3> HIDE DEF stop
    <3>2. (stop - start) % b = 0
      BY <2>1, <2>6, <3>1, WholeBlocks
    <3> QED
      BY <3>1, <3>2
  <2> QED
    BY <2>6, <2>7 DEF b
<1>4. (start + filled) % geometry.block = 0 /\ (len - filled) % geometry.block = 0
  <2>1. filled \in Nat /\ filled <= len
    BY <1>1
  <2> QED
    BY <1>1, <1>2, <1>3, <2>1, WholeBlocks
<1>5. (Alignment + filled) % geometry.memory = 0
  <2> DEFINE a == Alignment
             unit == geometry.memory
  <2>1. filled \in Nat /\ a \in Nat /\ unit \in Nat \ {0} /\ a % unit = 0 /\ filled % unit = 0
    BY <1>1, <1>2
  <2> HIDE DEF a, unit
  <2>2. (a + filled) % unit = 0
    BY <2>1, WholeBlocks
  <2> QED
    BY <2>2 DEF a, unit
<1>6. /\ Piece \in {len - filled, MaxRead} /\ Piece \in 1..MaxRead /\ filled + Piece <= len
  BY <1>1, <1>2 DEF Piece, Lesser
<1>7. Piece % geometry.block = 0
  BY <1>2, <1>4, <1>6
<1>8. start + filled + Piece <= capacity /\ filled + Piece <= BufferLen
  <2> DEFINE piece == Piece
             room == BufferLen
  <2>1. /\ piece \in Int /\ room \in Nat /\ filled + piece <= len /\ len <= room
        /\ start + len <= capacity /\ start \in Nat /\ len \in Nat /\ filled \in Nat /\ capacity \in Nat
    BY <1>1, <1>2, <1>6
  <2> HIDE DEF piece, room
  <2>2. start + filled + piece <= capacity /\ filled + piece <= room
    BY <2>1
  <2> QED
    BY <2>2 DEF piece, room
<1> QED
  BY <1>2, <1>4, <1>5, <1>6, <1>7, <1>8

\* Every variable keeps its type, for any descriptor and image (direct_read).
THEOREM VerifyIsTyped == Spec => []TypeOK
<1>1. VerifyInv => TypeOK
  BY DEF VerifyInv
<1> QED
  BY <1>1, InitVerify, VerifyKeeps, PTL DEF Spec

\* Every direct read of Verify keeps the kernel's rules, after any short read
\* (direct_read).
THEOREM DirectReadsKeepTheRules == Spec => []ReadsFollowTheRules
BY InitVerify, VerifyKeeps, RulesFollow, PTL DEF Spec

\* A verdict of Verify is about just the bytes its mode promises, each compared with
\* the byte of the device at its own offset: all of them where it succeeds, and where
\* it names a mismatch all that lie before the named one, which is the first that
\* differs (run_full_verify, run_quick_verify, first_mismatch).
THEOREM VerdictsAreTrue == Spec => []VerdictIsTrue
<1>1. VerifyInv => VerdictIsTrue
  BY DEF VerifyInv
<1> QED
  BY <1>1, InitVerify, VerifyKeeps, PTL DEF Spec

-----------------------------------------------------------------------------
(* How long it may take.                                                   *)

LEMMA MoreOnTop ==
  ASSUME NEW p \in Nat, NEW a \in Nat, NEW b \in Nat, a < b
  PROVE  p + a < p + b
OBVIOUS

LEMMA OneMoreTime ==
  ASSUME NEW w \in Nat, NEW a \in Nat, NEW b \in Nat, a < b
  PROVE  w * a + w <= w * b /\ w * a \in Nat /\ w * b \in Nat
<1> DEFINE d == b - a
<1>1. d \in Nat \ {0} /\ b = a + d
  OBVIOUS
<1> HIDE DEF d
<1>2. w * b = w * a + w * d /\ w * a \in Nat /\ w * d \in Nat
  BY <1>1
<1>3. w <= w * d
  <2> DEFINE e == d - 1
  <2>1. e \in Nat /\ d = e + 1
    BY <1>1
  <2> HIDE DEF e
  <2>2. w * d = w * e + w /\ w * e \in Nat
    BY <2>1
  <2>3. w * e >= 0
    BY <2>2
  <2> QED
    BY <2>2, <2>3
<1> QED
  BY <1>2, <1>3

\* What is left of Verify, once it has begun, is a number; and there is some of it as
\* long as a range is.
LEMMA LeftIsANumber ==
  ASSUME VerifyInv
  PROVE  /\ Left \in Nat /\ (index <= Len(Ranges) => Left > 0)
         /\ Usable(geometry) => BufferLen \in Nat
         /\ Usable(geometry) /\ pc # "done" => Pace \in Nat \ {0}
<1>1. /\ index \in Nat \ {0} /\ inner \in Nat /\ size \in Nat /\ Len(Ranges) \in Nat
      /\ TypeOK /\ ProgressInv /\ len \in Nat /\ filled \in 0..len
      /\ pc \in {"query", "begin", "loop", "source", "span", "read", "done"}
  BY TypedRanges DEF VerifyInv, TypeOK
<1>2. Usable(geometry) => BufferLen \in Nat
  BY <1>1, BufferTyped
<1>3. ASSUME index <= Len(Ranges) PROVE Left \in Nat /\ Left > 0
  <2>1. index \in 1..Len(Ranges) /\ inner <= size
    <3>1. index \in 1..Len(Ranges) /\ inner <= Ranges[index][2]
      BY <1>1, <1>3 DEF ProgressInv
    <3>2. /\ Ranges[index][1] \in Nat /\ Ranges[index][2] \in Nat
          /\ Ranges[index][1] + Ranges[index][2] <= size
      BY <1>1, <3>1, TypedRanges DEF Tiles
    <3> QED
      BY <1>1, <3>1, <3>2
  <2> DEFINE n == Len(Ranges) - index
  <2>2. n \in Nat /\ Left = (n + 1) * (size + 1) - inner
    BY <1>1, <1>3, <2>1 DEF Left
  <2> HIDE DEF n
  <2>3. (n + 1) * (size + 1) = n * (size + 1) + (size + 1) /\ n * (size + 1) \in Nat
    BY <1>1, <2>2
  <2>4. Left \in Nat /\ Left > 0
    BY <1>1, <2>1, <2>2, <2>3
  <2> QED
    BY <2>4
<1>4. ~(index <= Len(Ranges)) => Left = 0
  BY DEF Left
<1>5. ASSUME Usable(geometry), pc # "done" PROVE Pace \in Nat \ {0}
  <2>1. CASE pc = "read"
    <3>1. Pace = 1 + len - filled
      BY <2>1 DEF Pace
    <3> QED
      BY <1>1, <3>1
  <2>2. CASE pc # "read"
    <3>1. Pace \in {BufferLen + 2, BufferLen + 3, BufferLen + 4, BufferLen + 5, BufferLen + 6}
      BY <1>1, <1>5, <2>2 DEF Pace
    <3> QED
      BY <1>2, <1>5, <3>1
  <2> QED
    BY <2>1, <2>2
<1> QED
  BY <1>2, <1>3, <1>4, <1>5

\* A step that compares nothing brings the chunk on.
LEMMA ThePaceDecides ==
  ASSUME VerifyInv, UNCHANGED request, UNCHANGED <<index, inner>>, pc # "done",
         \/ pc' = "done"
         \/ Usable(geometry) /\ Pace' \in Nat /\ Pace' < Pace
  PROVE  StepsLeft' < StepsLeft
<1>1. Left' = Left /\ BufferLen' = BufferLen /\ Usable(geometry)' = Usable(geometry)
  BY SameRequest DEF Left, request
<1> DEFINE w == BufferLen + 4
<1>2. CASE pc' = "done"
  <2>1. StepsLeft' = 0
    BY <1>2 DEF StepsLeft
  <2>2. CASE ~Usable(geometry)
    BY <2>1, <2>2 DEF StepsLeft
  <2>3. CASE Usable(geometry)
    <3>1. w \in Nat /\ Left \in Nat /\ Pace \in Nat \ {0} /\ StepsLeft = w * Left + Pace
      BY <2>3, LeftIsANumber DEF StepsLeft
    <3> HIDE DEF w
    <3>2. w * Left \in Nat
      BY <3>1
    <3> QED
      BY <2>1, <3>1, <3>2
  <2> QED
    BY <2>2, <2>3
<1>3. CASE pc' # "done"
  <2>1. /\ w \in Nat /\ Left \in Nat /\ Pace \in Nat /\ Pace' \in Nat /\ Pace' < Pace
        /\ StepsLeft = w * Left + Pace /\ StepsLeft' = w * Left + Pace'
    <3>1. Usable(geometry) /\ Pace' \in Nat /\ Pace' < Pace
      BY <1>3
    <3> QED
      BY <1>1, <1>3, <3>1, LeftIsANumber DEF StepsLeft
  <2> DEFINE product == w * Left
  <2>2. product \in Nat
    BY <2>1
  <2> HIDE DEF w, product
  <2>3. StepsLeft = product + Pace /\ StepsLeft' = product + Pace'
    BY <2>1 DEF product
  <2>4. Pace \in Nat /\ Pace' \in Nat /\ Pace' < Pace
    BY <2>1
  <2>5. product + Pace' < product + Pace
    BY <2>2, <2>4, MoreOnTop, Zenon
  <2> QED
    BY <2>3, <2>5, Zenon
<1> QED
  BY <1>2, <1>3

\* A step that compares, or goes to the next range, leaves less to compare.
LEMMA LessIsLeft ==
  ASSUME VerifyInv, Usable(geometry), UNCHANGED request, pc \in {"loop", "read"}, pc' = "loop",
         Left' \in Nat, Left' < Left
  PROVE  StepsLeft' < StepsLeft
<1> DEFINE w == BufferLen + 4
<1>1. w \in Nat /\ Left \in Nat /\ Pace \in Nat \ {0} /\ StepsLeft = w * Left + Pace
  BY LeftIsANumber DEF StepsLeft
<1>2. Pace' = w /\ StepsLeft' = w * Left' + w
  BY SameRequest DEF StepsLeft, Pace
<1>3. pc = "loop" => Pace = w
  BY DEF Pace
<1> HIDE DEF w
<1>4. w * Left' + w <= w * Left /\ w * Left \in Nat /\ w * Left' \in Nat
  BY <1>1, OneMoreTime
<1> DEFINE more == w * Left
           less == w * Left'
<1>5. more \in Nat /\ less \in Nat /\ less + w <= more
      /\ StepsLeft = more + Pace /\ StepsLeft' = less + w
  BY <1>1, <1>2, <1>4
<1> HIDE DEF more, less
<1> QED
  BY <1>1, <1>5

LEMMA NextChunkCounts == VerifyInv /\ NextChunk => StepsLeft' < StepsLeft
<1> SUFFICES ASSUME VerifyInv, NextChunk PROVE StepsLeft' < StepsLeft
  OBVIOUS
<1>1. UNCHANGED request /\ pc = "loop" /\ Usable(geometry) /\ Ranges' = Ranges
  BY SameRequest DEF NextChunk, VerifyInv, PieceInv
<1>2. CASE UNCHANGED <<index, inner>> /\ pc' \in {"done", "source"}
  <2>1. BufferLen \in Nat /\ BufferLen' = BufferLen
    BY <1>1, LeftIsANumber, SameRequest
  <2>2. pc' = "source" => Pace' \in Nat /\ Pace' < Pace
    BY <1>1, <2>1 DEF Pace
  <2> QED
    BY <1>1, <1>2, <2>2, ThePaceDecides
<1>3. CASE /\ index <= Len(Ranges) /\ inner >= Ranges[index][2]
           /\ index' = index + 1 /\ inner' = 0 /\ UNCHANGED <<pc, outcome>>
  <2>1. Left \in Nat /\ Left > 0 /\ index \in Nat /\ Len(Ranges) \in Nat /\ size \in Nat
    BY <1>3, LeftIsANumber, TypedRanges DEF VerifyInv, TypeOK
  <2>2. CASE ~(index + 1 <= Len(Ranges))
    <3>1. Left' = 0
      BY <1>1, <1>3, <2>2 DEF Left
    <3> QED
      BY <1>1, <1>3, <2>1, <3>1, LessIsLeft
  <2>3. CASE index + 1 <= Len(Ranges)
    <3>1. inner \in Nat /\ inner <= size
      <4>1. index \in 1..Len(Ranges) /\ inner \in Nat /\ inner <= Ranges[index][2] /\ TypeOK
        BY <1>3, TypedRanges DEF VerifyInv, TypeOK, ProgressInv
      <4>2. /\ Ranges[index][1] \in Nat /\ Ranges[index][2] \in Nat
            /\ Ranges[index][1] + Ranges[index][2] <= size
        BY <4>1, TypedRanges DEF Tiles
      <4> QED
        BY <2>1, <4>1, <4>2
    <3> DEFINE n == Len(Ranges) - index
    <3>2. n \in Nat /\ Left = (n + 1) * (size + 1) - inner /\ Left' = n * (size + 1)
      <4>1. Left = (Len(Ranges) + 1 - index) * (size + 1) - inner
        BY <1>3 DEF Left
      <4>2. size' = size
        BY <1>1 DEF request
      <4>3. Left' = (Len(Ranges) + 1 - (index + 1)) * (size + 1) - 0
        BY <1>1, <1>3, <2>3, <4>2 DEF Left
      <4>4. /\ Len(Ranges) - index \in Nat /\ Len(Ranges) + 1 - index = (Len(Ranges) - index) + 1
            /\ Len(Ranges) + 1 - (index + 1) = Len(Ranges) - index
        BY <2>1, <2>3
      <4>5. (Len(Ranges) - index) * (size + 1) - 0 = (Len(Ranges) - index) * (size + 1)
        BY <2>1, <4>4
      <4> QED
        BY <4>1, <4>3, <4>4, <4>5
    <3> HIDE DEF n
    <3>3. (n + 1) * (size + 1) = n * (size + 1) + (size + 1) /\ n * (size + 1) \in Nat
      BY <2>1, <3>2
    <3>4. Left' \in Nat /\ Left' < Left
      BY <2>1, <3>1, <3>2, <3>3
    <3> QED
      BY <1>1, <1>3, <3>4, LessIsLeft
  <2> QED
    BY <2>2, <2>3
<1> QED
  BY <1>2, <1>3 DEF NextChunk, Finish

LEMMA CompareCounts == VerifyInv /\ Compare => StepsLeft' < StepsLeft
<1> SUFFICES ASSUME VerifyInv, Compare PROVE StepsLeft' < StepsLeft
  OBVIOUS
<1>1. /\ UNCHANGED request /\ pc = "read" /\ Usable(geometry) /\ Ranges' = Ranges /\ TypeOK
      /\ index <= Len(Ranges) /\ inner < Ranges[index][2]
  BY SameRequest DEF Compare, VerifyInv, PieceInv
<1>2. CASE pc' = "done" /\ UNCHANGED <<index, inner>>
  BY <1>1, <1>2, ThePaceDecides
<1>3. CASE inner' = inner + Want /\ pc' = "loop" /\ UNCHANGED index
  <2>1. Want \in Nat \ {0} /\ Left \in Nat /\ inner \in Nat /\ size' = size
    BY <1>1, LeftIsANumber, PieceInRange DEF VerifyInv, TypeOK, request
  <2> DEFINE whole == (Len(Ranges) + 1 - index) * (size + 1)
  <2>2. Left = whole - inner /\ Left' = whole - (inner + Want)
    BY <1>1, <1>3, <2>1 DEF Left
  <2>3. whole \in Int
    BY <1>1, TypedRanges DEF TypeOK
  <2> HIDE DEF whole
  <2>4. Left' < Left
    BY <2>1, <2>2, <2>3
  <2>5. Left' \in Nat
    <3>1. inner + Want <= size /\ size \in Nat
      <4>1. index \in 1..Len(Ranges) /\ inner + Want <= Ranges[index][2] /\ size \in Nat
        BY <1>1, PieceInRange, TypedRanges DEF TypeOK
      <4>2. /\ Ranges[index][1] \in Nat /\ Ranges[index][2] \in Nat
            /\ Ranges[index][1] + Ranges[index][2] <= size
        BY <1>1, <4>1, TypedRanges DEF Tiles
      <4> QED
        BY <2>1, <4>1, <4>2
    <3> DEFINE n == Len(Ranges) - index
    <3>2. n \in Nat /\ whole = (n + 1) * (size + 1)
      <4>1. Len(Ranges) \in Nat /\ index \in Nat
        BY <1>1, TypedRanges DEF TypeOK
      <4>2. n \in Nat /\ Len(Ranges) + 1 - index = n + 1
        BY <1>1, <4>1
      <4> QED
        BY <4>2 DEF whole
    <3> HIDE DEF n
    <3>3. (n + 1) * (size + 1) = n * (size + 1) + (size + 1) /\ n * (size + 1) \in Nat
      BY <3>1, <3>2
    <3> QED
      BY <2>1, <2>2, <3>1, <3>2, <3>3
  <2> QED
    BY <1>1, <1>3, <2>4, <2>5, LessIsLeft
<1> QED
  BY <1>2, <1>3 DEF Compare, Finish

LEMMA ReadingCounts ==
  VerifyInv /\ (Query \/ Begin \/ ReadSource \/ BeginSpan \/ ReadDevice \/ DeviceFails)
    => StepsLeft' < StepsLeft
<1> SUFFICES ASSUME VerifyInv, Query \/ Begin \/ ReadSource \/ BeginSpan \/ ReadDevice \/ DeviceFails
             PROVE  StepsLeft' < StepsLeft
  OBVIOUS
<1>1. UNCHANGED request /\ UNCHANGED <<index, inner>> /\ pc # "done" /\ BufferLen' = BufferLen
  BY SameRequest DEF Query, Begin, ReadSource, BeginSpan, ReadDevice, DeviceFails, progress, request
<1>2. CASE pc' = "done"
  BY <1>1, <1>2, ThePaceDecides
<1>3. CASE pc' # "done" /\ (Query \/ Begin \/ ReadSource)
  <2>1. Usable(geometry)
    BY <1>3 DEF Query, Begin, ReadSource, Finish, VerifyInv, PieceInv
  <2>2. \/ pc = "query" /\ pc' = "begin"
        \/ pc = "begin" /\ pc' = "loop"
        \/ pc = "source" /\ pc' = "span"
    BY <1>3 DEF Query, Begin, ReadSource, Finish
  <2>3. BufferLen \in Nat
    BY <2>1, LeftIsANumber
  <2>4. Pace' \in Nat /\ Pace' < Pace
    BY <1>1, <2>2, <2>3 DEF Pace
  <2> QED
    BY <1>1, <2>1, <2>4, ThePaceDecides
<1>4. CASE pc' # "done" /\ BeginSpan
  <2>1. Usable(geometry) /\ pc = "span" /\ pc' = "read" /\ At \in Nat /\ Want \in Nat
    BY <1>4, PieceInRange DEF BeginSpan, Finish, VerifyInv, PieceInv
  <2>2. BufferLen \in Nat
    BY <2>1, LeftIsANumber
  <2>3. len' <= BufferLen /\ filled' = 0 /\ len' \in Nat
    <3> DEFINE n == SpanEnd(At, Want) - SpanStart(At)
    <3>1. len' = n /\ ~(n > BufferLen) /\ filled' = 0
      BY <1>4 DEF BeginSpan, Finish
    <3>2. VerifyInv'
      BY <1>4, BeginSpanKeeps
    <3>3. len' \in Nat
      BY <3>2 DEF VerifyInv, TypeOK
    <3> HIDE DEF n
    <3> QED
      BY <2>2, <3>1, <3>3
  <2>4. Pace' = 1 + len' - filled' /\ Pace = BufferLen + 2
    BY <2>1 DEF Pace
  <2>5. Pace' = 1 + len'
    <3>1. Pace' = 1 + len' - 0
      BY <2>3, <2>4
    <3> QED
      BY <2>3, <3>1
  <2>6. \A m, n \in Nat : m <= n => 1 + m \in Nat /\ 1 + m < n + 2
    OBVIOUS
  <2>7. Pace' \in Nat /\ Pace' < Pace
    BY <2>2, <2>3, <2>4, <2>5, <2>6, Zenon
  <2> QED
    BY <1>1, <2>1, <2>7, ThePaceDecides
<1>5. CASE pc' # "done" /\ ReadDevice
  <2>1. /\ Usable(geometry) /\ pc = "read" /\ filled < len /\ len' = len
        /\ len \in Nat /\ filled \in Nat /\ TypeOK
    BY <1>5 DEF ReadDevice, VerifyInv, PieceInv, TypeOK
  <2>2. PICK n \in 0..Piece :
          IF n = 0 THEN Finish("TargetUnexpectedEof") /\ UNCHANGED <<buffer, filled>>
          ELSE /\ buffer' = [i \in DOMAIN buffer |->
                               IF i \in (filled + 1)..(filled + n) THEN start + i - 1 ELSE buffer[i]]
               /\ filled' = filled + n
               /\ IF filled + n < len /\ Unaligned(n) THEN Finish("UnalignedShortRead")
                                                     ELSE UNCHANGED <<pc, outcome>>
    BY <1>5 DEF ReadDevice
  <2>3. n # 0 /\ filled' = filled + n /\ pc' = "read"
    BY <1>5, <2>1, <2>2 DEF Finish
  <2>4. Piece \in Nat /\ Piece <= len - filled
    <3>1. MaxRead \in Nat
      BY <2>1, UsableGeometry
    <3> QED
      BY <2>1, <3>1 DEF Piece, Lesser
  <2>5. n \in Nat /\ n > 0 /\ n <= len - filled
    BY <2>1, <2>3, <2>4
  <2>6. Pace = 1 + len - filled /\ Pace' = 1 + len' - filled'
    BY <2>1, <2>3 DEF Pace
  <2>7. Pace' \in Nat /\ Pace' < Pace
    BY <2>1, <2>3, <2>5, <2>6
  <2> QED
    BY <1>1, <2>1, <2>7, ThePaceDecides
<1>6. DeviceFails => pc' = "done"
  BY DEF DeviceFails, Finish
<1> QED
  BY <1>2, <1>3, <1>4, <1>5, <1>6

\* Verify takes a bounded number of steps for any image, descriptor and division of its
\* reads: a read that brings nothing ends it, and one that brings little is continued
\* where it stopped (direct_read, run_full_verify, run_quick_verify).
THEOREM VerifyIsBounded == Spec => EveryStepCounts
<1>1. VerifyInv /\ [Next]_vars
      => [StepsLeft' < StepsLeft \/ (RequestCancel /\ UNCHANGED StepsLeft)]_vars
  <2> SUFFICES ASSUME VerifyInv, Next
               PROVE  StepsLeft' < StepsLeft \/ (RequestCancel /\ UNCHANGED StepsLeft)
    OBVIOUS
  <2>1. RequestCancel => UNCHANGED StepsLeft
    <3> SUFFICES ASSUME RequestCancel PROVE StepsLeft' = StepsLeft
      OBVIOUS
    <3>1. UNCHANGED <<geometry, size, index, inner, pc, len, filled>>
          /\ Ranges' = Ranges /\ BufferLen' = BufferLen
      BY SameRequest DEF RequestCancel, request, progress, span
    <3>2. Left' = Left /\ Pace' = Pace
      BY <3>1 DEF Left, Pace
    <3> QED
      BY <3>1, <3>2 DEF StepsLeft, Usable
  <2> QED
    BY <2>1, NextChunkCounts, CompareCounts, ReadingCounts DEF Next
<1> QED
  BY <1>1, InitVerify, VerifyKeeps, PTL DEF Spec, EveryStepCounts

\* And that number is one, from any point of it on.
THEOREM StepsLeftIsANumber == Spec => [](StepsLeft \in Nat)
<1>1. VerifyInv => StepsLeft \in Nat
  <2> SUFFICES ASSUME VerifyInv PROVE StepsLeft \in Nat
    OBVIOUS
  <2>1. CASE pc = "done" \/ ~Usable(geometry)
    BY <2>1 DEF StepsLeft
  <2>2. CASE pc # "done" /\ Usable(geometry)
    <3> DEFINE w == BufferLen + 4
    <3>1. w \in Nat /\ Left \in Nat /\ Pace \in Nat /\ StepsLeft = w * Left + Pace
      BY <2>2, LeftIsANumber DEF StepsLeft
    <3> HIDE DEF w
    <3>2. w * Left \in Nat
      BY <3>1
    <3> QED
      BY <3>1, <3>2
  <2> QED
    BY <2>1, <2>2
<1> QED
  BY <1>1, InitVerify, VerifyKeeps, PTL DEF Spec
=============================================================================
