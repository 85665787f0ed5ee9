CONSTANTS
  MaxClassIndex = 1
  MaxExcludableClasses = 2
  InvalidClassNames = {"no name"}
  MaxWayId = 99
  Distance <- MCDistance
  Bearing <- MCBearing
  SignalPenalty = 3
  UturnPenalty = 2
  Inputs <- MCInputs
  MaxTokens = 2
  Grain = 4
  SmallComponent = 3
  WalkLength = 6
  WORD_BITS = 8
  SEGMENT_BITS = 5
  WeightMultiplier = 10
  MaxSources = 3
  INVALID_TURN_PENALTY = 500
  OpeningHoursOf <- MCOpeningHours
SPECIFICATION Spec
CHECK_DEADLOCK FALSE
INVARIANTS ImportExact ExpansionExact UpdateExact
