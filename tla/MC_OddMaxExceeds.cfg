CONSTANTS
  Names <- MCNames
  Sizes <- MCSizesNarrow
  InitSize <- MCInitSize
  MaxSize <- MCMaxSizeOdd
  NumLevels = 1
  MaxPasses = 2

SPECIFICATION Spec

INVARIANT
  AtlasWithinMax
