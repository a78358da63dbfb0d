---------------------------- MODULE StrictReplay ----------------------------
(***************************************************************************)
(* What a compressed image promises to those who write and verify it       *)
(* (PreflightedCompressedImage, StrictReplayReader): it is handed out only *)
(* if the file is intact, with the size it really decodes to; a reader     *)
(* gives away all but the last of it before the whole is verified again,   *)
(* and the last only with that; and a reader that failed is done with.     *)
(***************************************************************************)
EXTENDS Naturals

VARIABLES image,  \* the file when it was opened: whether intact, and its real size
          size,   \* what the writer is told
          given,  \* what the reader has handed out
          end     \* "none" until there is an image; of its reader: "closed", "open",
                  \* "whole", "failed"

replayVars == <<image, size, given, end>>

ReplayInit ==
  /\ image \in [intact : BOOLEAN, size : Nat]
  /\ size = 0 /\ given = 0 /\ end = "none"

Prepare ==
  /\ end = "none" /\ image.intact
  /\ size' = image.size /\ end' = "closed"
  /\ UNCHANGED <<image, given>>

\* A reader starts over, whatever became of the last one.
Begin ==
  /\ end # "none"
  /\ given' = 0 /\ end' \in {"open", "failed"}
  /\ UNCHANGED <<image, size>>

Give ==
  /\ end = "open"
  /\ given' \in given + 1 .. size - 1
  /\ UNCHANGED <<image, size, end>>

Finish ==
  /\ end = "open"
  /\ given' = size /\ end' = "whole"
  /\ UNCHANGED <<image, size>>

Break ==
  /\ end = "open" /\ end' = "failed"
  /\ UNCHANGED <<image, size, given>>

ReplayNext == Prepare \/ Begin \/ Give \/ Finish \/ Break

ReplaySpec == ReplayInit /\ [][ReplayNext]_replayVars
=============================================================================
