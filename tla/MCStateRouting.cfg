SPECIFICATION RoutingSpec
CONSTANTS
  Backends <- MCBackends
  Names <- MCNames
  Types <- MCTypes
  Exported <- MCExported
  Graphs <- MCGraphs
INVARIANTS
  ExportedGraphIsServed
  FeedbackIsSound
CHECK_DEADLOCK FALSE
