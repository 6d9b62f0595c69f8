SPECIFICATION BlockSpec
CONSTANTS
  BlockTiles = 2
  Shapes <- SmallShapes
INVARIANTS
  StoresItsSums
