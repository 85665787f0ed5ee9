SPECIFICATION Spec
CONSTANT None = None
CHECK_DEADLOCK FALSE
INVARIANT SnappingExact
INVARIANT ViaExact
INVARIANT AlternativesSound
INVARIANT MatchingsSound
INVARIANT TripSound
