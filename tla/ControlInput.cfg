SPECIFICATION FairSpec
CONSTANTS
  Letters <- MCLetters
  Options <- MCOptions
  Commands <- MCCommands
  BufSize = 11
  MaxSaid = 2
  Stale = FALSE
INVARIANTS TypeOK CommandsInOrder PatientPeerStays PatientPeerHeard
PROPERTY PatientPeerServed
