CONSTANTS
  Names <- NameOrder
  Spelled <- SpelledAs
  IdFields <- Identities
  Default <- Defaults
  NaN = NaN
  None = None
  s1 = s1
  s2 = s2
  Slots = {s1, s2}
  Region = Region
  Dat = Dat
  Other = Other
  Spills <- SpilledSet
  Broken = Broken
  Worlds <- AllPairs
  Bases <- Third
  MaxKills = 1
  Killed <- KilledPairs
SPECIFICATION Spec
INVARIANTS PatchTypeOK RoundTrip CleanAfterKill AgreedIsKept DiffAndPatchAgree
CHECK_DEADLOCK FALSE
