CONSTANTS
  Workers <- MCWorkers
  INVALID_EDGE_WEIGHT = 1000
  BISECTION_BITS = 3
  Balance <- MCBalance
  BoundaryFactor <- MCBoundary
  num_optimizing_cuts = 2
  small_component_size = 2
  bisection_cell_size = 2
  max_cell_sizes <- MCSizes
  Inputs <- MCInputs
  Places <- MCPlaces
  Legs <- MCLegs
  Tables <- MCTables
  Overlays <- MCOverlays
  MaxQueries = 2
SPECIFICATION Spec
CHECK_DEADLOCK FALSE
INVARIANTS PartitionSound OverlayExact
