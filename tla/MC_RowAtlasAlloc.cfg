CONSTANTS
  Names <- MCNames
  Sizes <- MCSizesNarrow
  InitSize <- MCInitSize
  MaxSize <- MCMaxSize
  NumLevels = 1
  MaxPasses = 2

SPECIFICATION Spec

INVARIANTS
  TypeOK
  AtlasWithinMax
  RowsStacked
  PlacedWithinAtlas
  PlacedDisjoint
  EstimateTracksFreeArea
  FindRowIsBestFit
  HeightPowerOfTwoInPass

PROPERTIES
  AllocateTerminates
  ImplementsAtlasPacking
