SPECIFICATION Spec
CONSTANTS
  MaxDimension = 13
  MaxPipelineDimension = 5
  MaxSide = 14
INVARIANTS
  TypeOK
  FitsStorage
  SizeFitsPicture
PROPERTY
  ReducedToTheLimit
