------------------------- MODULE MCCompressedImage -------------------------
(* CompressedImage for TLC: files of a few units, each bringing forth none,  *)
(* one or several units of output.                                           *)
EXTENDS CompressedImage

Data(n) == [out |-> n, kind |-> "data", of |-> "a"]
Close == [out |-> 0, kind |-> "end", of |-> "a"]
Bad(why) == [out |-> 0, kind |-> why, of |-> "a"]

Runs(n, outs) == {[i \in 1..n |-> Data(o[i])] : o \in [1..n -> outs]}

\* Whole files, of one member or of two, the first one possibly empty.
Whole(n, outs) == {Append(r, Close) : r \in Runs(n, outs)}
Twice(outs) == {<<Close>> \o w : w \in Whole(1, outs)} \cup
               {v \o w : v, w \in Whole(1, outs)}

\* Files that are cut or damaged.
Damaged == {<<Data(1)>>, <<Data(1), Data(2)>>, <<Data(2), Bad("Corrupt")>>,
            <<Data(2), Bad("IntegrityCheckMissing"), Close>>, <<Bad("Corrupt")>>,
            <<Data(2), Close, Data(0)>>, <<Data(1), Close, Bad("Corrupt")>>}

\* Much output, and then long runs of input that bring forth none.
Long == {[i \in 1..(n + 2) |-> IF i = n + 2 THEN Close ELSE Data(o[i])] :
           n \in 6..8,
           o \in {[i \in 1..9 |-> 0], [i \in 1..9 |-> IF i <= 2 THEN 2 ELSE 0],
                  [i \in 1..9 |-> IF i % 3 = 0 THEN 1 ELSE 0]}}

Later(f) == [i \in DOMAIN f |-> [f[i] EXCEPT !.of = "b"]]

MCFiles == Whole(1, {0, 1, 3}) \cup Whole(2, {0, 2}) \cup Twice({0, 2}) \cup Damaged \cup Long

\* Altered in place, truncated or extended; what is not touched keeps its version.
MCAltered ==
  {Later(f) : f \in Whole(2, {1, 2}) \cup {<<Data(2), Bad("Corrupt")>>}}
  \cup {<<Data(2)>> \o Later(<<Close>>), <<Data(2), Close>> \o Later(<<Data(1), Close>>),
        <<Data(0), Close>> \o Later(<<Data(2), Close>>), Later(<<Data(2), Close>>), <<>>}

\* Long runs that bring forth little, for the budget.
BudgetFiles == Whole(6, {0, 1, 2})
None == {}
=============================================================================
