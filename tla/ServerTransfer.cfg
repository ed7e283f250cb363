\* Transfers when nothing fails but the network; no REIN.
SPECIFICATION FairSpec
CONSTANTS
  s1 = s1
  s2 = s2
  s3 = s3
  s4 = s4
  Sessions <- TwoSessions
  Users <- OneUser
  Guarded <- OneUser
  Anon = FALSE
  Limit <- NoLimit
  Ip <- OneAddress
  Connections = 0
  Fds <- ThreeFds
  Commands <- NoReinCommands
  Faults = {}
INVARIANTS TransferWatched FlagsDescribeFile TransferAnswered ListingsDeleted
PROPERTIES KickedLeaves
