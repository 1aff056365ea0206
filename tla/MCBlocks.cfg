CONSTANTS
  Side = 4
  RegionSide = 2
  Cell = 2
  WordBits = 16
  BlockBits = 2
  Air = Air
  Sign = Sign
  stone = stone
  dirt = dirt
  sand = sand
  plains = plains
  forest = forest
  Blocks = {Air, Sign}
  Biome <- BiomeAt
  Chunks <- ThreeChunks
  Heights <- ThreeHeights
  StartHeights <- LowHeight
  Palettes <- StartPalettes
  Places <- Spots
  MaxChunks = 2
  MaxSide = 2
  MapSections <- TwoHeights
  ScanTops <- LowAndHigh
  MaxEdits = 4
  CoordLimit = 64
  Broken = Broken
  Refused = Refused
  Failed = Failed
  None = None
SPECIFICATION Spec
INVARIANTS BlocksTypeOK InspectRight ChangesExact FindsSigns MapRight
CHECK_DEADLOCK FALSE
