CONSTANTS
  Clients = {c1, c2}
  Objects <- MCObjects
  Tips <- MCTips
  Reach <- MCReach
  Branches = {main}
  MaxTries = 2
  None = None
  MaxCommands = 2
SPECIFICATION MCFairSpec
INVARIANTS BucketTypeOK PublishedComplete FetchFindsAll HeadNamesRef
PROPERTIES CommandsEnd ImplementsPublished
CHECK_DEADLOCK FALSE
