SPECIFICATION Spec
CONSTANTS
  CommandCodes <- MCCodes
  MaxBanner = 2
  MaxQueue = 11
  MaxTorn = 9
  FeatOverHeld = FALSE
  OnePerCommand = FALSE
INVARIANT RepliesClose
