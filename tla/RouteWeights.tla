---------------------------- MODULE RouteWeights ----------------------------
(***************************************************************************)
(* The weights of one route request while live traffic changes under it.   *)
(*                                                                         *)
(* MakePhantomNode (include/engine/geospatial_query.hpp) splits the road   *)
(* of the source and of the target and scales both halves with the live    *)
(* record of the road; the search adds them to the static weights of the   *)
(* graph; annotatePath (include/engine/routing_algorithms/                 *)
(* routing_base.hpp) scales the weights of the path with the records it    *)
(* finds then; assembleLeg (include/engine/guidance/assemble_leg.hpp) adds *)
(* them up.  Every read of a record is a step of its own, and a record may *)
(* be published between any two of them.                                   *)
(*                                                                         *)
(* Two roads, the second reached from the first by a turn.  The edge based *)
(* graph has one node per road and direction.                              *)
(***************************************************************************)
EXTENDS TrafficWeights, Sequences, Functions

CONSTANTS
    Roads,           \* geometry ids
    Forward,         \* Forward[r]: static weights of the segments of road r
    Backward,        \* Backward[r]: the same for the other direction of travel
    TurnWeight,      \* weight penalty of the turn between two roads
    Speeds,          \* mean speeds a record may carry
    NoRecord,        \* the store has no record of the road
    NoPhantom,       \* the coordinate has not been snapped yet
    NoRoute,         \* the search found no path
    Steps,           \* the ratio along a segment is step / Steps
    MaxPublications  \* bound: records published during the request

ASSUME StepsAssumption == Steps \in Nat \ {0}

VARIABLES
    live,            \* the store: road -> mean speed or NoRecord
    source,          \* PhantomNode of the source
    target,          \* PhantomNode of the target
    path,            \* what the search found: weight and the two directions
    weight,          \* the sum annotatePath and assembleLeg compute
    pc,              \* where the request is
    published        \* history: records published since the request began

vars == <<live, source, target, path, weight, pc, published>>

Directions == {"forward", "reverse"}

Static(road, dir) == IF dir = "forward" THEN Forward[road] ELSE Backward[road]

SumOf(weights, indices) == SumFunctionOnSet(weights, indices)

Total(weights) == SumOf(weights, DOMAIN weights)

ApplyLiveTrafficToSegmentWeights(speed, weights) ==
    IF speed = NoRecord
      THEN weights
      ELSE [i \in DOMAIN weights |->
              ApplyLiveTrafficToSegmentWeight(ComputeTrafficWeightFactor(speed),
                                              weights[i])]

LiveWeights(road, dir) ==
    ApplyLiveTrafficToSegmentWeights(live[road], Static(road, dir))

(* Index of a phantom's segment, counted from 0 in the direction of travel *)
SegmentPosition(phantom, dir) ==
    IF dir = "forward" THEN phantom.fwd_segment_position
                       ELSE Len(Forward[phantom.road]) - phantom.fwd_segment_position - 1

WeightPlusOffset(phantom, dir) == phantom[dir].offset + phantom[dir].weight

Init ==
    /\ live \in [Roads -> Speeds \cup {NoRecord}]
    /\ source = NoPhantom
    /\ target = NoPhantom
    /\ path = NoRoute
    /\ weight = 0
    /\ pc = "source"
    /\ published = 0

-----------------------------------------------------------------------------
(* An aggregation by another thread, or by one of the request's own calls, *)
(* publishes a record; a sweep removes one.                                *)
Publish ==
    /\ pc # "done"
    /\ published < MaxPublications
    /\ published' = published + 1
    /\ \E r \in Roads, s \in Speeds \cup {NoRecord} : live' = [live EXCEPT ![r] = s]
    /\ UNCHANGED <<source, target, path, weight, pc>>

(* The weight up to the phantom: whole segments before it, and the part of *)
(* its own segment that lies before it, rounded down.                      *)
ForwardPart(weights, position, step) ==
    [offset |-> SumOf(weights, 1 .. position),
     weight |-> (weights[position + 1] * step) \div Steps]

ReversePart_SameSide(weights, position, step) ==
    LET own == Len(weights) - position
    IN  [offset |-> SumOf(weights, 1 .. own - 1),
         weight |-> (weights[own] * step) \div Steps]

ReversePart_OwnSegment(weights, position, step) ==
    LET own == Len(weights) - position
    IN  [offset |-> SumOf(weights, 1 .. own),
         weight |-> weights[own] - (weights[own] * step) \div Steps]

ReversePart(weights, position, step) ==
    LET own == Len(weights) - position
    IN  [offset |-> SumOf(weights, 1 .. own - 1),
         weight |-> weights[own] - (weights[own] * step) \div Steps]

NoPart == [offset |-> 0, weight |-> 0]

(* MakePhantomNode up to its first read of the record.                     *)
SnapForward(road, position, step) ==
    [road |-> road, fwd_segment_position |-> position, step |-> step,
     forward |-> ForwardPart(LiveWeights(road, "forward"), position, step),
     reverse |-> NoPart]

(* The rest of it, with the second read.                                   *)
SnapReverse(phantom) ==
    [phantom EXCEPT !.reverse =
        ReversePart(LiveWeights(phantom.road, "reverse"),
                    phantom.fwd_segment_position, phantom.step)]

SourceForward ==
    /\ pc = "source"
    /\ \E r \in Roads, k \in 0 .. Steps : \E i \in DOMAIN Forward[r] :
         source' = SnapForward(r, i - 1, k)
    /\ pc' = "source reverse"
    /\ UNCHANGED <<live, target, path, weight, published>>

SourceReverse ==
    /\ pc = "source reverse"
    /\ source' = SnapReverse(source)
    /\ pc' = "target"
    /\ UNCHANGED <<live, target, path, weight, published>>

TargetForward ==
    /\ pc = "target"
    /\ \E r \in Roads, k \in 0 .. Steps : \E i \in DOMAIN Forward[r] :
         target' = SnapForward(r, i - 1, k)
    /\ pc' = "target reverse"
    /\ UNCHANGED <<live, source, path, weight, published>>

TargetReverse ==
    /\ pc = "target reverse"
    /\ target' = SnapReverse(target)
    /\ pc' = "search"
    /\ UNCHANGED <<live, source, path, weight, published>>

-----------------------------------------------------------------------------
Local == source.road = target.road

(* The weight the two heaps give the node where the searches meet: minus   *)
(* the source's part, the static weight of the source's road when the path *)
(* leaves it, the target's part.                                           *)
MeetingWeight(from, to) ==
    (IF Local THEN 0 ELSE Total(Static(source.road, from)) + TurnWeight)
        - WeightPlusOffset(source, from) + WeightPlusOffset(target, to)

(* The searches meet on the source's road or on the target's; a negative   *)
(* weight is no path (for a single node it also forces a loop).            *)
Search ==
    /\ pc = "search"
    /\ \E from, to \in Directions :
         /\ Local => from = to
         /\ IF MeetingWeight(from, to) >= 0
              THEN /\ path' = [weight |-> MeetingWeight(from, to), from |-> from, to |-> to]
                   /\ pc' = IF Local THEN "annotate target" ELSE "annotate source"
              ELSE /\ path' = NoRoute
                   /\ pc' = "done"
    /\ UNCHANGED <<live, source, target, weight, published>>

(* weight_until_turn of the first entry of the path.                       *)
Clamped(first) ==
    LET rest == first - source[path.from].weight IN IF rest > 0 THEN rest ELSE 0

AnnotateSource_WholeRoad ==
    /\ pc = "annotate source"
    /\ weight' = TurnWeight + Total(LiveWeights(source.road, path.from))
    /\ pc' = "annotate target"
    /\ UNCHANGED <<live, source, target, path, published>>

(* The segments of the source's road from the source on, and the turn,     *)
(* which is added to the last of them.                                     *)
AnnotateSource ==
    /\ pc = "annotate source"
    /\ LET weights == LiveWeights(source.road, path.from)
           start == SegmentPosition(source, path.from)
           first == weights[start + 1]
                      + (IF start + 1 = Len(weights) THEN TurnWeight ELSE 0)
       IN  weight' = Clamped(first) - first
                       + SumOf(weights, start + 1 .. Len(weights)) + TurnWeight
    /\ pc' = "annotate target"
    /\ UNCHANGED <<live, source, target, path, published>>

(* The entries annotatePath adds for the target's road, from start_index   *)
(* up, or down, to end_index, which is left out.                           *)
EntriesBetween(weights, start, end) ==
    IF start < end THEN SumOf(weights, start + 1 .. end)
                   ELSE SumOf(weights, end + 2 .. start + 1)

(* annotatePath on the target's road, then assembleLeg: the target's part  *)
(* is added, and on a single segment the source's part is subtracted.      *)
AnnotateTarget ==
    /\ pc = "annotate target"
    /\ LET weights == LiveWeights(target.road, path.to)
           start == IF Local THEN SegmentPosition(source, path.to) ELSE 0
           end == SegmentPosition(target, path.to)
           entries == EntriesBetween(weights, start, end)
           sourcePart ==
               CASE ~Local -> 0
                 [] Local /\ start = end -> source[path.to].weight
                 [] Local /\ start # end -> weights[start + 1] - Clamped(weights[start + 1])
       IN  weight' = weight + entries - sourcePart + target[path.to].weight
    /\ pc' = "done"
    /\ UNCHANGED <<live, source, target, path, published>>

Next ==
    \/ Publish
    \/ SourceForward \/ SourceReverse
    \/ TargetForward \/ TargetReverse
    \/ Search
    \/ AnnotateSource \/ AnnotateTarget
    \/ pc = "done" /\ UNCHANGED vars

Spec == Init /\ [][Next]_vars

-----------------------------------------------------------------------------
(* Properties.                                                             *)

Snapped == pc \in {"search", "annotate source", "annotate target", "done"}

(* How far a phantom is along its road, in the direction of travel.        *)
Progress(phantom, dir) ==
    SegmentPosition(phantom, dir) * Steps
        + (IF dir = "forward" THEN phantom.step ELSE Steps - phantom.step)

(* A target ahead of the source on its road is never, while the records    *)
(* stay the same, given a smaller weight than the source: the single node  *)
(* path is found and no loop is forced.                                    *)
SteadyTrafficKeepsOrder ==
    Snapped /\ published = 0 /\ Local =>
        \A dir \in Directions :
            Progress(source, dir) <= Progress(target, dir) =>
                WeightPlusOffset(source, dir) <= WeightPlusOffset(target, dir)

(* On a road with the same weights in both directions the two parts of a   *)
(* phantom make up the road, whatever was rounded.                         *)
PartsMakeUpTheRoad ==
    Snapped /\ published = 0 =>
        \A p \in {source, target} :
            (\A i \in DOMAIN Forward[p.road] :
                Forward[p.road][i] = Backward[p.road][Len(Forward[p.road]) + 1 - i])
            => WeightPlusOffset(p, "forward") + WeightPlusOffset(p, "reverse")
                 = Total(LiveWeights(p.road, "forward"))

Found == pc = "done" /\ path # NoRoute

(* While the records stay the same, the weight reported for a leg is the   *)
(* live cost of what is driven: the source's road from the source on, the  *)
(* turn and the target's road up to the target, each segment scaled once   *)
(* and the rounding of the two phantoms kept.  It is not the weight the    *)
(* search compared (path.weight), in which the source's road counts with   *)
(* its static weights.  Left out are a negative turn penalty, which        *)
(* annotatePath clamps away, and a target behind the source on its road.   *)
ReportedWeightIsLive ==
    (/\ Found /\ published = 0 /\ TurnWeight >= 0
     /\ Local => SegmentPosition(source, path.to) <= SegmentPosition(target, path.to))
    => weight = (IF Local THEN 0 ELSE Total(LiveWeights(source.road, path.from)) + TurnWeight)
                  - WeightPlusOffset(source, path.from) + WeightPlusOffset(target, path.to)
=============================================================================
