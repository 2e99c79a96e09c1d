\* Two connections of one address, an approver, small queue.
CONSTANTS
  c1 = c1  c2 = c2  p1 = p1  p2 = p2
  Conns = {c1, c2}
  Peers = {p1}
  PeerOf <- OneDevice
  MaxConns = 2
  MaxRequests = 2
  MaxGrants = 1
  ApprovalCap = 1
  CompletedCap = 1
  Approval = TRUE
  Once = FALSE
SPECIFICATION FairSpec
CHECK_DEADLOCK FALSE
INVARIANTS
  UploadsWereAccepted
  GrantsPairUploads
  StoredWasApproved
  DoneMeansStored
PROPERTIES
  SlotIsFreed
  ReceivesByConsent
