\* Logins: limits on sessions and on connections.
SPECIFICATION Spec
CONSTANTS
  s1 = s1
  s2 = s2
  s3 = s3
  s4 = s4
  Sessions <- LoginSessions
  Users <- LoginUsers
  Guarded <- LoginGuarded
  Anon = TRUE
  Limit <- LoginLimit
  Ip <- LoginIp
  Connections = 3
  Fds <- TwoFds
  Commands <- LoginCommands
  Faults = {}
INVARIANTS CountMatches SessionLimit
