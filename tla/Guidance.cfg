SPECIFICATION Spec
CONSTANT None = None
CHECK_DEADLOCK FALSE
INVARIANT StepsWhole
INVARIANT StepsAnnounced
INVARIANT TurnsComplete
INVARIANT TurnsCoherent
