CONSTANTS
  Names <- MCNames
  Sizes <- MCSizesNarrow
  InitSize <- MCInitSize
  MaxSize <- MCMaxSize
  NumLevels = 1
  MaxPasses = 3

SPECIFICATION Spec

INVARIANT
  FailedEntriesUnset
