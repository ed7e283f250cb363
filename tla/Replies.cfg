SPECIFICATION FairSpec
CONSTANTS
  CommandCodes <- MCCodes
  MaxBanner = 2
  MaxQueue = 11
  MaxTorn = 9
  FeatOverHeld = FALSE
  OnePerCommand = FALSE
INVARIANTS TypeOK NoBlockedReply RepliesAreClosed RepliesMatchCommands QuitGetsWritten
PROPERTY RepliesDelivered
