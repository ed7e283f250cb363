SPECIFICATION Spec
CONSTANTS
  Letters <- MCLetters
  Options <- MCOptions
  Commands <- MCCommands
  BufSize = 11
  MaxSaid = 2
  Stale = TRUE
INVARIANT CommandsInOrder
