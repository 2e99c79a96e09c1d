\* One device that trusts us and is trusted, one for each half, a stranger.
CONSTANTS
  phone = phone  tablet = tablet  oldMac = oldMac  stranger = stranger  linux = linux
  Devices = {phone, tablet, oldMac, stranger}
  KnownToUs = {phone, tablet}
  KnowUs = {phone, oldMac}
  Us = linux
  Info <- ShortInfo
  Fetch <- FetchRequest
  Boards <- BoundaryBoards
  Values <- BoundaryValues
  Pairings <- BoundaryPairings
SPECIFICATION FairSpec
CHECK_DEADLOCK FALSE
INVARIANTS
  FailsForAReason
  PayloadsReadBack
PROPERTIES
  PullIsTrusted
  BothEnd
