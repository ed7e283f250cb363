\* Transfers with every fault and every command but USER when logged in.
SPECIFICATION Spec
CONSTANTS
  s1 = s1
  s2 = s2
  s3 = s3
  s4 = s4
  Sessions <- TwoSessions
  Users <- OneUser
  Guarded <- OneUser
  Anon = FALSE
  Limit <- NoLimit
  Ip <- OneAddress
  Connections = 0
  Fds <- TwoFds
  Commands <- MostCommands
  Faults <- AllFaults
INVARIANTS TypeOK AccountPresent DescriptorsOwned
PROPERTIES TransferUndisturbed
