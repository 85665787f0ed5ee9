--------------------------- MODULE TrafficWeights ---------------------------
(***************************************************************************)
(* The pure functions of include/engine/traffic_aggregator.hpp: a mean     *)
(* speed becomes a weight factor, and a factor scales the                  *)
(* weight of a road segment.                                               *)
(*                                                                         *)
(* A C++ double is modelled as an exact fraction [n |-> Int, d |-> Nat]:   *)
(* the mean of count speeds is [n |-> sum, d |-> count], so no rounding is *)
(* hidden in the model except the one std::round in the code performs.     *)
(***************************************************************************)
EXTENDS Integers

Fraction(n, d) == [n |-> n, d |-> d]

Leq(a, b) == a.n * b.d <= b.n * a.d

REFERENCE_SPEED == 50
MaxFactor == Fraction(10, 1)

ComputeTrafficWeightFactor(speed) ==
    IF 2 * speed.n <= speed.d
      THEN MaxFactor
      ELSE LET factor == Fraction(REFERENCE_SPEED * speed.d, speed.n)
           IN  IF Leq(factor, MaxFactor) THEN factor ELSE MaxFactor

(* std::round(weight * factor) on a non-negative weight: the nearest       *)
(* integer, halves rounded up.                                             *)
ApplyLiveTrafficToSegmentWeight(factor, weight) ==
    (2 * weight * factor.n + factor.d) \div (2 * factor.d)
=============================================================================
