CONSTANTS
  small = small
  mid = mid
  big = big
  plain = plain
  datum = datum
  lock = lock
  Slots = {s1}
  Chunks = {small, mid, big}
  ZLib = ZLib
  Schemes = {ZLib, plain}
  GameForms <- GameFormsOf
  GameSpills <- GameSpillsOf
  Spills = {big}
  Datas = {datum}
  Region = Region
  Dat = Dat
  Others = {}
  Skipped = {lock}
  data = data
  Dirs = {data}
  Inside <- InsideOf
  Scopes <- AllScopes
  MaxCommits = 3
  MaxTurns = 4
  MaxKills = 1
  External = External
  None = None
SPECIFICATION MCSpec
INVARIANTS WorktreeTypeOK CheckoutGivesBack FreshIsClean WorkIsSomewhere
CHECK_DEADLOCK FALSE
