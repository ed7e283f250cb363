SPECIFICATION Spec
CONSTANTS
  Names = {"a", "b"}
  Volumes = {"w"}
  Groups = {0, 1}
  Sessions = {s1}
  UserLists <- SomeUserLists
  AliasLists <- SomeAliasLists
  Args <- SomeArgs
  Places <- SomePlaces
  StartDirs <- TheVolume
  StartFiles = {}
  UserAgain = TRUE
  KickedServed = FALSE
INVARIANTS TypeOK DirectoryAgrees LongestAlias
PROPERTIES SessionsKept UnaffectedStay FilesChangeByRight
CHECK_DEADLOCK FALSE
