CONSTANTS
  Names <- NameOrder
  Spelled <- SpelledAs
  IdFields <- Identities
  Default <- Defaults
  NaN = NaN
  None = None
  s1 = s1
  s2 = s2
  Slots = {s1, s2}
  Region = Region
  Dat = Dat
  Other = Other
  Spills <- SpilledSet
  Broken = Broken
  Worlds <- ListPairs
  Bases <- Third
  MaxKills = 0
  Killed <- KilledPairs
SPECIFICATION Spec
INVARIANT CleanMeansApplied
CHECK_DEADLOCK FALSE
