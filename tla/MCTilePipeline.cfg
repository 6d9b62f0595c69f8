SPECIFICATION BlockSpec
CONSTANTS
  BlockTiles = 2
  Shapes <- ModelShapes
INVARIANTS
  StoresItsSums
PROPERTIES
  BlockFinishes
