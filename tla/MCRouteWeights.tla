--------------------------- MODULE MCRouteWeights ---------------------------
(* Two roads: one of two segments, one of one; odd weights, so that halves *)
(* are rounded.                                                            *)
EXTENDS RouteWeights, TLC

CONSTANTS r1, r2

SegmentsForward == (r1 :> <<3, 8>>) @@ (r2 :> <<5>>)
SegmentsBackward == (r1 :> <<8, 3>>) @@ (r2 :> <<7>>)

(* The slowest, the ones around the colour limits, a mean of two users,    *)
(* the fastest.                                                            *)
MeanSpeeds ==
    {Fraction(1, 1), Fraction(29, 1), Fraction(99, 2), Fraction(50, 1), Fraction(300, 1)}

=============================================================================
