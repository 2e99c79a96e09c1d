\* Two uploads whose names collide, also after numbering, and a transfer of
\* three links that competes with them for the first name: its rollback has up
\* to two to take back.
CONSTANTS
  Jobs = {j1, j2}
  Links = {l1}
  NLinks = 3
  Names <- TwoNames
  LinkName <- Photo
  LinkTries = 3
  User = User
  Nobody = Nobody
SPECIFICATION FairSpec
CHECK_DEADLOCK FALSE
INVARIANTS
  FailureLeavesNothing
  NoItemLost
  NumbersSuffice
PROPERTIES
  NothingReplaced
  PublishingEnds
