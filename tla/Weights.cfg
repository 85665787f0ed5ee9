SPECIFICATION Spec
CONSTANTS
    r1 = r1  r2 = r2
    NoRecord = NoRecord  NoPhantom = NoPhantom  NoRoute = NoRoute
    Roads = {r1, r2}
    Forward <- SegmentsForward
    Backward <- SegmentsBackward
    TurnWeight = 2
    Speeds <- MeanSpeeds
    Steps = 2
    MaxPublications = 1
INVARIANTS
    SteadyTrafficKeepsOrder PartsMakeUpTheRoad ReportedWeightIsLive
