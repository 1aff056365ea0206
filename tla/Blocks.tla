------------------------------- MODULE Blocks ------------------------------
(***************************************************************************)
(* What the tools say about blocks: paletted sections (anvil/blockstate.rs)*)
(* read by inspect, where-changed, find and map (query/lib.rs, render.rs)  *)
(* and by the block edits of diff (diff/world.rs), while the game writes   *)
(* the world.                                                              *)
(*                                                                         *)
(* A dimension directory is w[r][i]: the chunk in slot i of region file r, *)
(* None, Broken where the payload does not decode, or Refused where it is  *)
(* a .mcc file that is not a regular file of a bounded length.             *)
(* A chunk has sections by height, each with two palettes and their packed *)
(* indices (None where a palette of one needs none), and block entities.   *)
(* Beside each world the truth is kept: the block at every position the    *)
(* game has generated.                                                     *)
(***************************************************************************)
EXTENDS ChunkPos, Sequences, FiniteSets, FiniteSetsExt, SequencesExt

CONSTANTS
  Cell,          \* blocks along a side of a biome cell (4)
  WordBits,      \* bits of a packed word (64)
  BlockBits,     \* least bits of a block index (4)
  Air, Sign,     \* blocks
  Blocks,        \* blocks the game places
  Biome(_),      \* the biome of a position, the same in a cell
  Chunks,        \* chunk positions the game generates
  Heights,       \* section heights it generates
  StartHeights,  \* those that a new chunk has
  Palettes,      \* palettes a new section may have
  Places,        \* bound: positions the game builds at
  MaxChunks,     \* chunks a map may have
  MaxSide,       \* chunks along a side of a map
  ScanTops,      \* heights above which a map does not look
  MapSections,   \* section heights a map looks at (-4 to 19)
  MaxEdits,      \* bound: changes by the game
  CoordLimit,    \* an i32 is in -CoordLimit .. CoordLimit - 1 (2^31)
  Broken, Refused, None,
  Failed         \* the answer of a query that ends in an error

Positions == {p \in (UNION {{c[1] * Side + d : d \in 0 .. Side - 1} : c \in Chunks})
                    \X (UNION {{h * Side + d : d \in 0 .. Side - 1} : h \in Heights})
                    \X (UNION {{c[2] * Side + d : d \in 0 .. Side - 1} : c \in Chunks}) :
                chunk_of(p) \in Chunks}

\* The biome cells along a side of a section, and the corner of one.
CellSide == Side \div Cell

cell_pos(c, h, i) ==
  <<c[1] * Side + (i % CellSide) * Cell, h * Side + (i \div (CellSide * CellSide)) * Cell,
    c[2] * Side + ((i \div CellSide) % CellSide) * Cell>>

\* The entry of a block in the biomes of its section.
cell_index(p) ==
  LET at(x) == (x % Side) \div Cell
  IN  at(p[2]) * (CellSide * CellSide) + at(p[3]) * CellSide + at(p[1])

\* Every block there may be.
States == Blocks \cup {Air, Sign} \cup UNION {ToSet(palette) : palette \in Palettes}

Regions == {region(c) : c \in Chunks}
Slots   == 0 .. RegionSide * RegionSide - 1

VARIABLES
  old, new,            \* a copy of the world and the world
  truthOld, truth,     \* the block at each position of both, None where there is none
  edits

vars == <<old, new, truthOld, truth, edits>>

-----------------------------------------------------------------------------
(* The game: it writes palettes that hold what the section needs, packs    *)
(* indices low bits first, and lets none span two words.                   *)

\* 1 << n
Pow2[n \in 0 .. WordBits] == IF n = 0 THEN 1 ELSE 2 * Pow2[n - 1]

\* The sections of chunks and the chunks there may be, as they are on disk.
Containers(S) == [palette : Seq(S), data : Seq(Nat) \cup {None}]
BiomesThere   == {Biome(p) : p \in Positions}
SectionRecords == [blocks : Containers(States), biomes : Containers(BiomesThere)]
ChunkRecords  ==
  [sections : UNION {[H -> SectionRecords] : H \in SUBSET Heights},
   entities : Seq({Sign} \X Positions)]

ASSUME SizesAssumption ==
  /\ Cell \in Nat \ {0} /\ Side % Cell = 0
  /\ WordBits \in Nat /\ BlockBits \in 1 .. WordBits
  /\ MaxSide \in Nat \ {0} /\ ScanTops \subseteq Int /\ MaxEdits \in Nat

ASSUME PlacesAssumption ==
  /\ Chunks \subseteq Int \X Int /\ IsFiniteSet(Chunks)
  /\ Heights \subseteq Int /\ StartHeights \subseteq Heights
  /\ Places \subseteq Positions

\* A section is generated without signs, and an index of every palette fits in
\* a word.
ASSUME PalettesAssumption ==
  /\ \A palette \in Palettes : /\ palette \in Seq(States) /\ Len(palette) > 0
                               /\ IsInjective(palette) /\ palette[1] # Sign
  /\ IsFiniteSet(States) /\ Cardinality(States) <= Pow2[WordBits]
  /\ CellSide * CellSide * CellSide <= Pow2[WordBits]
  /\ Air # Sign

ASSUME BiomeAssumption ==
  \A p \in Positions : Biome(p) = Biome(cell_pos(chunk_of(p), section_of(p), cell_index(p)))

\* The world border is well inside of what an i32 counts, in blocks.
ASSUME BorderAssumption ==
  /\ CoordLimit \in Nat /\ 4 * Side * MaxSide <= CoordLimit
  /\ \A c \in Chunks : \A k \in 1 .. 2 :
       -CoordLimit < 4 * Side * c[k] /\ 4 * Side * c[k] < CoordLimit

ASSUME NoneAssumption ==
  /\ None \notin {Broken, Refused} /\ Broken # Refused /\ None \notin States \cup BiomesThere \cup Nat
  /\ None \notin Seq(Nat) /\ None \notin [1 .. Side * Side * Side -> States]
  /\ {None, Broken, Refused} \cap ChunkRecords = {}

\* Mutant: a palette of a power of two is taken to need one bit more.
BitsForLength(n, least) == Max({Min({b \in 0 .. WordBits : Pow2[b] > n}), least})

\* bits_for
bits_for(n, least) ==
  LET needed == IF n <= 1 THEN 0 ELSE Min({b \in 0 .. WordBits : Pow2[b] > n - 1})
  IN  Max({needed, least})

GameBits(n, least) == CHOOSE b \in least .. WordBits :
                        Pow2[b] >= n /\ (b = least \/ Pow2[b - 1] < n)

\* The entries from .. to in one word.
Word(ids, bits, from, to) ==
  LET rest[k \in from .. to + 1] == IF k > to THEN 0 ELSE ids[k] + Pow2[bits] * rest[k + 1]
  IN  rest[from]

Pack(ids, bits) ==
  LET per == WordBits \div bits
      words == (Len(ids) + per - 1) \div per
  IN  [w \in 1 .. words |-> Word(ids, bits, (w - 1) * per + 1, Min({w * per, Len(ids)}))]

\* values: what each entry is; every value is in the palette.
Paletted(values, palette, least) ==
  [palette |-> palette,
   data |-> IF Len(palette) = 1 THEN None
            ELSE Pack([i \in DOMAIN values |-> (CHOOSE j \in DOMAIN palette : palette[j] = values[i]) - 1],
                      GameBits(Len(palette), least))]

SectionOf(t, c, h, palette) ==
  LET biomes == [i \in 1 .. CellSide * CellSide * CellSide |-> Biome(cell_pos(c, h, i - 1))]
  IN  [blocks |-> Paletted([i \in 1 .. Side * Side * Side |-> t[block_pos(c, h, i - 1)]],
                           palette, BlockBits),
       biomes |-> Paletted(biomes, SetToSeq(ToSet(biomes)), 1)]

-----------------------------------------------------------------------------
(* Reading a section.                                                      *)

\* palette_index, 0-based, None past the end of the data.
palette_index(data, n, least, idx) ==
  LET bits == bits_for(n, least)
      per  == WordBits \div bits
  IN  IF data = None THEN 0
      ELSE IF idx \div per >= Len(data) THEN None
      ELSE (data[idx \div per + 1] \div Pow2[(idx % per) * bits]) % Pow2[bits]

\* palette.get
Entry(palette, pi) == IF pi = None \/ pi >= Len(palette) THEN None ELSE palette[pi + 1]

\* block_at
block_at(chunk, p) ==
  IF section_of(p) \notin DOMAIN chunk.sections THEN None
  ELSE LET s == chunk.sections[section_of(p)].blocks
       IN  Entry(s.palette, palette_index(s.data, Len(s.palette), BlockBits, block_index(p)))

\* biome_at
biome_at(chunk, p) ==
  IF section_of(p) \notin DOMAIN chunk.sections THEN None
  ELSE LET s == chunk.sections[section_of(p)].biomes
       IN  Entry(s.palette, palette_index(s.data, Len(s.palette), 1, cell_index(p)))

\* section_blocks: all of a section, or None when one entry cannot be read.
section_blocks(chunk, h) ==
  IF h \notin DOMAIN chunk.sections THEN None
  ELSE LET s == chunk.sections[h].blocks
           all == [i \in 1 .. Side * Side * Side |->
                     Entry(s.palette, palette_index(s.data, Len(s.palette), BlockBits, i - 1))]
       IN  IF None \in ToSet(all) THEN None ELSE all

-----------------------------------------------------------------------------
(* inspect, find and where-changed.                                        *)

\* RegionFile::get: a slot is known by the position its index gives.
ChunkAt(w, c) ==
  LET slot == {i \in Slots : from_region_index(region(c), i) = c}
  IN  IF region(c) \in DOMAIN w /\ slot # {} THEN w[region(c)][CHOOSE i \in slot : TRUE]
      ELSE None

\* Whether a region file holds anything.
Exists(w, r) == \E i \in Slots : w[r][i] # None

\* RegionFile::parse: one .mcc that is refused and there is no region.
Parses(w, r) == \A i \in Slots : w[r][i] # Refused

\* RegionFile::chunks, of every region file that parses.
ChunksOf(w) ==
  UNION {{from_region_index(r, i) : i \in {j \in Slots : w[r][j] # None}} :
         r \in {x \in DOMAIN w : Parses(w, x)}}

\* Mutant: a chunk that does not decode takes its whole region with it.
ReadChunksStrict(w) ==
  {c \in ChunksOf(w) : Broken \notin {w[region(c)][i] : i \in Slots}}

\* The chunks that decode, with their places.
ReadChunks(w) == {c \in ChunksOf(w) : ChunkAt(w, c) # Broken}

\* WorldQuery::inspect: block, biome and block entity, the last there is.
inspect(w, p) ==
  LET chunk == ChunkAt(w, chunk_of(p))
      here  == {i \in DOMAIN chunk.entities : chunk.entities[i][2] = p}
  IN  IF region(chunk_of(p)) \in DOMAIN w /\ ~Parses(w, region(chunk_of(p))) THEN Failed
      ELSE IF chunk \in {None, Broken} THEN [block |-> None, biome |-> None, entity |-> None]
      ELSE [block |-> block_at(chunk, p), biome |-> biome_at(chunk, p),
            entity |-> IF here = {} THEN None ELSE chunk.entities[Max(here)][1]]

\* read_chunks and scan_block_entities: find_block_entities and find_signs.
find_block_entities(w, id) ==
  IF \E r \in DOMAIN w : ~Parses(w, r) THEN Failed
  ELSE {e \in UNION {ToSet(ChunkAt(w, c).entities) : c \in ReadChunks(w)} : e[1] = id}

\* Mutant: row and column are exchanged.
BlockChangesSwapped(a, b, c) ==
  LET at(s, i) == IF s = None THEN None ELSE s[i]
      pos(h, i) == block_pos(<<c[2], c[1]>>, h, i - 1)
  IN  UNION {{<<<<pos(h, i)[3], pos(h, i)[2], pos(h, i)[1]>>,
                at(section_blocks(a, h), i), at(section_blocks(b, h), i)>> :
              i \in {j \in 1 .. Side * Side * Side :
                       at(section_blocks(a, h), j) # at(section_blocks(b, h), j)}} :
             h \in DOMAIN a.sections \cup DOMAIN b.sections}

\* The changes between two decoded chunks, section by section.
BlockChanges(a, b, c) ==
  LET at(s, i) == IF s = None THEN None ELSE s[i]
  IN  UNION {LET sa == section_blocks(a, h)
                 sb == section_blocks(b, h)
             IN  {<<block_pos(c, h, i - 1), at(sa, i), at(sb, i)>> :
                    i \in {j \in 1 .. Side * Side * Side : at(sa, j) # at(sb, j)}} :
             h \in DOMAIN a.sections \cup DOMAIN b.sections}

\* where_changed: region files and chunks that only one world has are left out.
where_changed(w, x) ==
  IF \E r \in DOMAIN w \cap DOMAIN x :
       Exists(w, r) /\ Exists(x, r) /\ ~(Parses(w, r) /\ Parses(x, r)) THEN Failed
  ELSE UNION {BlockChanges(ChunkAt(w, c), ChunkAt(x, c), c) :
                c \in ReadChunks(w) \cap ReadChunks(x)}

\* block_edits_between, for a chunk that diff lists.
block_edits_between(a, b, c) == BlockChanges(a, b, c)

-----------------------------------------------------------------------------
(* map (render.rs).                                                        *)

\* The sections a map looks at; a chunk without one is not drawn.
Scanned(chunk, top) ==
  {h \in DOMAIN chunk.sections \cap MapSections :
     h * Side <= top /\ section_blocks(chunk, h) # None}

\* surface_of: <<position, block>>, the highest of each column that is not air.
surface_of(chunk, c, top) ==
  LET solid == UNION {LET all == section_blocks(chunk, h)
                      IN  {<<block_pos(c, h, i - 1), all[i]>> :
                             i \in {j \in DOMAIN all : /\ all[j] # Air
                                                      /\ block_pos(c, h, j - 1)[2] <= top}} :
                      h \in Scanned(chunk, top)}
      where == {e[1] : e \in solid}
      ys    == {p[2] : p \in where}
  IN  {e \in solid : \A y \in ys : y > e[1][2] => <<e[1][1], y, e[1][3]>> \notin where}

\* / on i64
TruncDiv(a, b) == IF a >= 0 THEN a \div b ELSE -((-a) \div b)

\* Mutant: the window is one chunk too wide to the east or south.
WindowOne(lo, hi) ==
  IF hi - lo + 1 <= MaxSide THEN <<lo, hi>>
  ELSE LET from == TruncDiv(lo + hi, 2) - MaxSide \div 2 IN <<from, from + MaxSide>>

\* The chunks shown along one side.
Window(lo, hi) ==
  IF hi - lo + 1 <= MaxSide THEN <<lo, hi>>
  ELSE LET from == TruncDiv(lo + hi, 2) - MaxSide \div 2 IN <<from, from + MaxSide - 1>>

\* Which chunks are drawn before the limit is hit (those of a region file that
\* does not parse are passed over), in an order that file names
\* and a hash map decide: <<chunks, limit was hit>>.  The limit is hit when one
\* more chunk is looked at, drawable or not.
Looked(w, top) ==
  LET shown == {c \in ReadChunks(w) : Scanned(ChunkAt(w, c), top) # {}}
  IN  IF Cardinality(shown) < MaxChunks THEN {<<shown, FALSE>>}
      ELSE {r \in kSubset(MaxChunks, shown) \X BOOLEAN :
              /\ r[1] # shown => r[2]
              /\ r[1] = ChunksOf(w) => ~r[2]}

\* north_shade: a column against the one to the north, if the picture has it.
Shade(image, e) ==
  LET north == {f \in image : f[1][1] = e[1][1] /\ f[1][3] = e[1][3] - 1}
  IN  IF \E f \in north : f[1][2] < e[1][2] THEN 1
      ELSE IF \E f \in north : f[1][2] > e[1][2] THEN -1
      ELSE 0

\* What i32 arithmetic makes of a number.
Wrap(n) == ((n + CoordLimit) % (2 * CoordLimit)) - CoordLimit

\* base_col and base_row: where a chunk starts along one side of the picture.
Base(x, lo) == Wrap(Wrap(x - lo) * Side)

\* Whether the chunk is placed along that side.
Fits(x, window) ==
  0 <= Base(x, window[1]) /\ Base(x, window[1]) + Side <= (window[2] - window[1] + 1) * Side

\* render_map: <<x, z>> of the chunks in the picture, the pixels that are not
\* background, and whether the picture says it is cut.
render_map(w, top, looked) ==
  LET xs == {c[1] : c \in looked[1]}
      zs == {c[2] : c \in looked[1]}
      wx == Window(Min(xs), Max(xs))
      wz == Window(Min(zs), Max(zs))
      placed == {c \in looked[1] : Fits(c[1], wx) /\ Fits(c[2], wz)}
      pixel(x, lo, at) == lo * Side + Base(x, lo) + (at - x * Side)
      image  == UNION {{<<<<pixel(c[1], wx[1], e[1][1]), e[1][2], pixel(c[2], wz[1], e[1][3])>>, e[2]>> :
                          e \in surface_of(ChunkAt(w, c), c, top)} : c \in placed}
  IN  [frame |-> (wx[1] .. wx[2]) \X (wz[1] .. wz[2]),
       pixels |-> {<<e[1][1], e[1][3], e[2], Shade(image, e)>> : e \in image},
       truncated |-> looked[2] \/ <<Min(xs), Max(xs)>> # wx \/ <<Min(zs), Max(zs)>> # wz]

-----------------------------------------------------------------------------
(* The game and the player's copies.                                       *)

NoWorld == [r \in Regions |-> [i \in Slots |-> None]]

Put(w, c, chunk) == [w EXCEPT ![region(c)][region_index(c)] = chunk]

Nowhere == [p \in Positions |-> None]

Init ==
  /\ old = NoWorld /\ new = NoWorld
  /\ truthOld = Nowhere /\ truth = Nowhere
  /\ edits = 0

\* A chunk is generated, of the first block of a palette.
Generate(c, palette) ==
  /\ edits < MaxEdits /\ edits' = edits + 1
  /\ ChunkAt(new, c) = None
  /\ truth' = [p \in Positions |-> IF chunk_of(p) = c /\ section_of(p) \in StartHeights
                                   THEN palette[1] ELSE truth[p]]
  /\ new' = Put(new, c, [sections |-> [h \in StartHeights |-> SectionOf(truth', c, h, palette)],
                         entities |-> <<>>])
  /\ UNCHANGED <<old, truthOld>>

\* A block is placed or taken away; a section the chunk lacks is made, of air.
\* A palette only grows.  Block entities are written in any order.
Place(p, b) ==
  LET c == chunk_of(p)
      h == section_of(p)
      chunk == ChunkAt(new, c)
      filled == [q \in Positions |-> IF chunk_of(q) = c /\ section_of(q) = h /\ truth[q] = None
                                     THEN Air
                                     ELSE truth[q]]
      before == IF h \in DOMAIN chunk.sections THEN chunk.sections[h].blocks.palette ELSE <<Air>>
      palette == IF b \in ToSet(before) THEN before ELSE Append(before, b)
      others == {e \in ToSet(chunk.entities) : e[2] # p}
  IN  /\ edits < MaxEdits /\ edits' = edits + 1
      /\ chunk \notin {None, Broken, Refused}
      /\ b # filled[p]
      /\ truth' = [filled EXCEPT ![p] = b]
      /\ new' = Put(new, c,
           [sections |-> [k \in DOMAIN chunk.sections \cup {h} |->
                            IF k = h THEN SectionOf(truth', c, h, palette) ELSE chunk.sections[k]],
            entities |-> SetToSeq(IF b = Sign THEN others \cup {<<Sign, p>>} ELSE others)])
      /\ UNCHANGED <<old, truthOld>>

\* A chunk is damaged on disk: its payload, or the .mcc file that holds it.
Damage(c, how) ==
  /\ edits < MaxEdits /\ edits' = edits + 1
  /\ ChunkAt(new, c) \notin {None, Broken, Refused}
  /\ new' = Put(new, c, how)
  /\ truth' = [p \in Positions |-> IF chunk_of(p) = c THEN None ELSE truth[p]]
  /\ UNCHANGED <<old, truthOld>>

\* The world is copied, to compare it with later.
CopyWorld ==
  /\ old # new
  /\ old' = new /\ truthOld' = truth
  /\ UNCHANGED <<new, truth, edits>>

Next ==
  \/ \E c \in Chunks, palette \in Palettes : Generate(c, palette)
  \/ \E p \in Places, b \in Blocks : Place(p, b)
  \/ \E c \in Chunks, how \in {Broken, Refused} : Damage(c, how)
  \/ CopyWorld

Spec == Init /\ [][Next]_vars

-----------------------------------------------------------------------------
(* Properties.                                                             *)

Good(w, p) == ChunkAt(w, chunk_of(p)) \notin {None, Broken, Refused}

\* The type invariant: chunks are where they were generated, words fit their
\* width, palettes have no entry twice.
BlocksTypeOK ==
  /\ DOMAIN old = Regions /\ DOMAIN new = Regions
  /\ edits \in 0 .. MaxEdits
  /\ ChunksOf(new) \subseteq Chunks
  /\ \A c \in ReadChunks(new) : \A h \in DOMAIN ChunkAt(new, c).sections :
       LET s == ChunkAt(new, c).sections[h].blocks
       IN  /\ IsInjective(s.palette)
           /\ s.data # None => \A i \in DOMAIN s.data : s.data[i] \in 0 .. Pow2[WordBits] - 1

\* inspect says of every position what the game put there, on both sides of
\* every zero and for every number of index bits; nothing of a position that was
\* not generated or cannot be read; and it fails just where one chunk of the
\* region is refused.
InspectRight ==
  \A p \in Positions :
    inspect(new, p) =
      IF ~Parses(new, region(chunk_of(p))) THEN Failed
      ELSE [block  |-> truth[p],
            biome  |-> IF truth[p] = None THEN None ELSE Biome(p),
            entity |-> IF truth[p] = Sign THEN Sign ELSE None]

\* The region files that both worlds have.
Shared == {r \in Regions : Exists(old, r) /\ Exists(new, r)}

\* where_changed, and the block edits of diff, are exact: each position that
\* differs in chunks that both worlds have, with both blocks, and no other;
\* where_changed fails if a region file of both has a refused chunk in either.
ChangesExact ==
  LET changed(ps) == {<<p, truthOld[p], truth[p]>> : p \in {q \in ps : truthOld[q] # truth[q]}}
  IN  /\ where_changed(old, new) =
           IF \A r \in Shared : Parses(old, r) /\ Parses(new, r)
           THEN changed({p \in Positions : Good(old, p) /\ Good(new, p)})
           ELSE Failed
      /\ \A c \in ReadChunks(old) \cap ReadChunks(new) :
           block_edits_between(ChunkAt(old, c), ChunkAt(new, c), c) =
             changed({p \in Positions : chunk_of(p) = c})

\* find lists every sign where the game has it and no other, also those of the
\* chunks beside one that does not decode; one refused chunk anywhere in the
\* dimension and it lists none.
FindsSigns ==
  find_block_entities(new, Sign) =
    IF \E r \in Regions : ~Parses(new, r) THEN Failed
    ELSE {<<Sign, p>> : p \in {q \in Positions : truth[q] = Sign}}

\* Every height a block may have.
Levels == {p[2] : p \in Positions}

\* The highest blocks of the columns at or below a height, in the sections a map
\* looks at.
Tops(top) ==
  LET solid == {p \in Positions : /\ truth[p] \notin {None, Air} /\ p[2] <= top
                                  /\ section_of(p) \in MapSections}
  IN  {p \in solid : \A y \in Levels : y > p[2] => <<p[1], y, p[3]>> \notin solid}

\* A map is right: every pixel is the top block of its column, lighter than the
\* block when that to the north is lower, darker when it is higher, where the
\* picture has that; no chunk in the picture is left out but for the limit; the
\* picture is within its size; and one that does not say it is cut shows every
\* chunk there is, but for the region files that have a refused chunk.
MapRight ==
  \A top \in ScanTops :
    LET tops == Tops(top)
    IN  \A looked \in Looked(new, top) : looked[1] # {} =>
          LET m == render_map(new, top, looked)
              seen == {p \in tops : chunk_of(p) \in looked[1] \cap m.frame}
              north(p) == {y \in Levels : <<p[1], y, p[3] - 1>> \in seen}
              slope(p) == IF \E y \in north(p) : y < p[2] THEN 1
                          ELSE IF \E y \in north(p) : y > p[2] THEN -1
                          ELSE 0
          IN  /\ m.pixels = {<<p[1], p[3], truth[p], slope(p)>> : p \in seen}
              /\ Cardinality(m.frame) <= MaxSide * MaxSide
              /\ ~m.truncated => seen = {p \in tops : Parses(new, region(chunk_of(p)))}

=============================================================================
