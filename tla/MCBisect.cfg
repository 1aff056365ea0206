CONSTANTS
  MaxCommits = 5
  Branch = Branch
  Blank = Blank
  None = None
SPECIFICATION MCSpec
INVARIANTS BisectTypeOK BlameIsSound
PROPERTIES Halves
