--------------------------- MODULE MCVerifyRead ---------------------------
(* VerifyRead for TLC: blocks of two, DMA alignments above and below them,   *)
(* a page above both, and descriptors that cannot be used.                   *)
EXTENDS VerifyRead

Kernel(direct, block, offset, memory, page) ==
  [direct |-> direct, block |-> block, offset |-> offset, memory |-> memory, page |-> page]

MCGeometries ==
  {Kernel(TRUE, b, b, m, p) : b \in {1, 2, 4}, m \in {1, 4}, p \in {2}}
  \cup {Kernel(FALSE, 2, 2, 1, 4), Kernel(TRUE, 2, 1, 1, 4), Kernel(TRUE, 8, 8, 1, 4),
        Kernel(TRUE, 3, 3, 1, 4), Kernel(TRUE, 2, 2, 0, 4)}
=============================================================================
