CONSTANTS
  Names <- TwoNames
  Validators <- FiveValidators
  Values <- SixValues
  Documents <- TwoDocuments
  EscapedEnd = {1}
  LikeSyntax = {2}
  MaxListeners = 1
  Cells <- TwoCells
  FileValues <- TwoTexts
  DefaultCells <- OneCell
  DefaultValue <- TextD
  ArgDefault <- TextX
  Files <- OneFile
  Arguments <- NineArguments
  MaxArgs = 3
  MaxFlags = 2
  FlagDecls <- ThreeDecls
SPECIFICATION Spec
CHECK_DEADLOCK FALSE
INVARIANTS RegisteredIsUsable SavedIsRestored SavedIsReadBack GetIsLayered ParsedAsRead
