----------------------------- MODULE ChunkPos ------------------------------
(***************************************************************************)
(* Where a block is: block to chunk to region file and slot, and back      *)
(* (anvil/chunk.rs and the arithmetic of query/lib.rs and diff/world.rs).  *)
(* Coordinates are signed: >> is a floor division, & a non-negative rest.  *)
(***************************************************************************)
EXTENDS Integers

CONSTANTS
  Side,          \* blocks along a side of a chunk and of a section (16)
  RegionSide     \* chunks along a side of a region (32)

ASSUME SidesAssumption == Side \in Nat \ {0} /\ RegionSide \in Nat \ {0}

\* ChunkPos::region_index: the slot of a chunk in its region's table.
region_index(c) == (c[1] % RegionSide) + (c[2] % RegionSide) * RegionSide

\* ChunkPos::region: the region file of a chunk.
region(c) == <<c[1] \div RegionSide, c[2] \div RegionSide>>

\* Mutant: row and column of the table are exchanged.
FromIndexSwapped(r, i) ==
  <<r[1] * RegionSide + (i \div RegionSide), r[2] * RegionSide + (i % RegionSide)>>

\* ChunkPos::from_region_index
from_region_index(r, i) ==
  <<r[1] * RegionSide + (i % RegionSide), r[2] * RegionSide + (i \div RegionSide)>>

\* The chunk of a block, and the section.
chunk_of(p)   == <<p[1] \div Side, p[3] \div Side>>
section_of(p) == p[2] \div Side

\* The entry of a block in its section: layer, row, column.
block_index(p) == (p[2] % Side) * (Side * Side) + (p[3] % Side) * Side + (p[1] % Side)

\* The block of entry idx in section sy of chunk c.
block_pos(c, sy, idx) ==
  LET ly == idx \div (Side * Side)
      rem == idx % (Side * Side)
  IN  <<c[1] * Side + (rem % Side), sy * Side + ly, c[2] * Side + (rem \div Side)>>

=============================================================================
