CONSTANTS
  n1 = n1
  n2 = n2
  t1 = t1
  t2 = t2
  Nodes = {n1, n2}
  Tiles = {t1, t2}
  Home = n1
  LiveMoves = {TRUE}
  MaxMoves = 2
  MaxWrites = 1
  MaxTrouble = 3
SPECIFICATION Spec
INVARIANTS TypeOK RunsOnItsData OneNode NotLeftDown EndsWhole
SYMMETRY TileSymmetry
CONSTRAINT NotRaced
CHECK_DEADLOCK FALSE
