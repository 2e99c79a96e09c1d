\* Both ends of one transfer; connections break at any point.
CONSTANTS
  c1 = c1  c2 = c2  p1 = p1
  NoConn = NoConn
  Conns = {c1, c2}
  Peers = {p1}
  PeerOf <- MCPeerOf
  MaxConns = 2
  MaxRequests = 2
  MaxGrants = 1
  ApprovalCap = 1
  CompletedCap = 1
  Approval = TRUE
  Once = FALSE
  Callers = {sender, daemon}
  Client = sender
  Absent = Absent
  Partial = Partial
  Nodes <- MCNodes
  NameOf <- MCName
  Children <- MCChildren
  Selections <- MCSelections
  Unsupported = {}
  Formatting = {}
  Hidden = {"hidden"}
  LongPaths <- MCLongPaths
  MaxDepth = 1
  MaxEntries = 4
  MaxFile = 1
  MaxTransfer = 6
  HeaderSize = 1
  MaxSize = 2
  MaxChanges = 2
SPECIFICATION DFairSpec
CHECK_DEADLOCK FALSE
INVARIANTS
  PublishedAtMostOnce
  DeliveredAsDecided
  OneIdentity
  PreparedIsAccepted
PROPERTIES
  TransferEnds
