\* Two runs of send-key, two or three frames each.
CONSTANTS
  s1 = s1  s2 = s2
  Senders = {s1, s2}
  NoSender = NoSender
  SealedLen = 5
  ChunkLens <- MCChunkLens
SPECIFICATION FairSpec
CHECK_DEADLOCK FALSE
INVARIANTS
  FileIsConfirmed
  LoneTransferOpens
PROPERTIES
  CompleteIsNoticed
