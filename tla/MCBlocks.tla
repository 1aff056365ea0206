------------------------------ MODULE MCBlocks -----------------------------
(***************************************************************************)
(* Blocks.tla for TLC: sections of 4 x 4 x 4 blocks, words of 16 bits and  *)
(* indices of at least 2, so that a fifth palette entry makes an index of  *)
(* 3 bits that does not fill its word; three chunks, two of them one north *)
(* of the other in a region on the negative side, and one far to the east. *)
(***************************************************************************)
EXTENDS Blocks

CONSTANTS stone, dirt, sand, plains, forest

BiomeAt(p) == IF p[1] % Side < Cell /\ p[3] % Side >= Cell THEN forest ELSE plains

ThreeChunks == {<<-1, -2>>, <<-1, -1>>, <<2, -1>>}

StartPalettes == {<<Air>>, <<stone, Air, dirt, sand>>}

Spots == {<<-4, -1, -7>>, <<-1, 3, -5>>, <<9, -4, -1>>, <<-3, 4, -6>>}

ThreeHeights == {-1, 0, 1}
TwoHeights == {-1, 0}
LowHeight == {-1}

LowAndHigh == {1, 100}

=============================================================================
