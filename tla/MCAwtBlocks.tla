---------------------------- MODULE MCAwtBlocks -----------------------------
(* Blocks of three samples, frames shorter, as long and longer than two of *)
(* them, two channels.                                                     *)
EXTENDS AwtBlocks

MCFrameLengths == {0, 1, 2, 3, 5, 7}
=============================================================================
