SPECIFICATION EitherSpec
CONSTANTS
  MaxRows = 2
  MaxCells = 2
  Names = {n1, n2, n3}
  MaxCols = 3
  MaxArrays = 3
  MaxChanges = 2
  n1 = n1
  n2 = n2
  n3 = n3
SYMMETRY NameSymmetry
INVARIANTS
  RowsTogether
  MapFindsColumns
  NullFlagSound
  ArrivesAsSent
PROPERTIES
  ChangesAsRows
CHECK_DEADLOCK FALSE
