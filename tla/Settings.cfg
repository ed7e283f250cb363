SPECIFICATION Spec
CONSTANTS
  n1 = n1
  a1 = a1
  sp = sp
  Spaces = sp
  Texts <- MCTexts
  Names = {n1}
  NoName = NoName
  Root = Root
  Aliases = {a1, Root}
  NoAlias = NoAlias
  Numbers = {1, 2}
  Word <- MCWord
  Typed <- MCTyped
  Started <- MCStarted
  MaxEdits = 2
INVARIANTS RestartKeeps
PROPERTIES EditedOnly
