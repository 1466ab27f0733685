CONSTANTS
  Names <- MCNames
  Sizes <- MCSizesWide
  InitSize <- MCInitSize
  MaxSize <- MCMaxSize
  NumLevels = 1
  MaxPasses = 2

SPECIFICATION Spec

INVARIANT
  PlacedWithinAtlas
