\* The command line receiver with --once and no approver: two devices
\* compete for one slot, and their transfers for a completed channel of one.
CONSTANTS
  c1 = c1  c2 = c2  p1 = p1  p2 = p2
  Conns = {c1, c2}
  Peers = {p1, p2}
  PeerOf <- TwoDevices
  MaxConns = 1
  MaxRequests = 3
  MaxGrants = 1
  ApprovalCap = 1
  CompletedCap = 1
  Approval = FALSE
  Once = TRUE
SPECIFICATION FairSpec
CHECK_DEADLOCK FALSE
INVARIANTS
  LimitsHold
PROPERTIES
  OnceCloses
