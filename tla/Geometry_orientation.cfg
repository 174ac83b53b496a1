SPECIFICATION Spec
CONSTANTS
  MaxDimension = 3
  MaxPipelineDimension = 2
  MaxSide = 3
INVARIANT
  ShownUpright
