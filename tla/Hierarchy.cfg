CONSTANTS
  Threads <- MCThreads
  Hash <- MCHash
  SIMULATION_SEARCH_SPACE_SIZE = 1
  FULL_SEARCH_SPACE_SIZE = 2
  INVALID_EDGE_WEIGHT = 1000
  Inputs <- MCInputs
  Places <- MCPlaces
  Legs <- MCLegs
  Tables <- MCTables
SPECIFICATION Spec
INVARIANTS ContractionSound AnswersExact
