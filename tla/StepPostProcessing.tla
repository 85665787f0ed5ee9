------------------------- MODULE StepPostProcessing -------------------------
(* The steps of one leg of a route and its geometry, as they are first     *)
(* assembled (engine/guidance/assemble_leg.hpp, assemble_geometry.hpp,     *)
(* assemble_steps.hpp) and the operations on single steps                  *)
(* (route_step.hpp, collapsing_utility.hpp).  A leg is a record            *)
(*   path    the unpacked points: the road driven on, the node reached, its *)
(*           position along the way in metres, duration and weight up to   *)
(*           and with the turn taken there, the turn's own share, the turn, *)
(*           its bearings before and after and the intersection;           *)
(*   start   the node behind the source; source and target, their roads;   *)
(*   end     the target's position; last, duration and weight up to it;    *)
(*   offset  what of them lies before the source on the target's road.     *)
(* Steps, locations and segments count from 1.                             *)
EXTENDS TurnInstruction, Algorithms

CONSTANTS Roads,     \* [road -> [sign, mode, segregated]]
          Affixes    \* the name affixes of the suffix table

NO_INDEX == 0
NoLanes == [n |-> 0, first |-> 255]      \* LaneTuple(): 0, INVALID_LANEID
NoSign == [id |-> 0, name |-> <<>>, ref |-> <<>>, pronunciation |-> <<>>, exits |-> <<>>]
Waypoint(in, out) == [bearings |-> <<90>>, entry |-> <<TRUE>>, in |-> in, out |-> out, lanes |-> NoLanes, total |-> 0]
InvalidIntersection == [bearings |-> <<>>, entry |-> <<>>, in |-> NO_INDEX, out |-> NO_INDEX,
                        lanes |-> NoLanes, total |-> 0]

Invalidate(step) ==
  [step EXCEPT !.sign = NoSign, !.rotary = <<>>, !.duration = 0, !.distance = 0, !.weight = 0,
               !.mode = "inaccessible", !.type = "NoTurn", !.modifier = "UTurn", !.waypoint = "none",
               !.bearings = <<0, 0>>, !.exit = 0, !.begin = 0, !.end = 0, !.intersections = <<InvalidIntersection>>]

ElongateBy_Begin(step, following) ==
  [step EXCEPT !.duration = @ + following.duration, !.distance = @ + following.distance,
               !.weight = @ + following.weight, !.end = following.begin,
               !.intersections = @ \o following.intersections]
ElongateBy(step, following) ==
  [step EXCEPT !.duration = @ + following.duration, !.distance = @ + following.distance,
               !.weight = @ + following.weight, !.end = following.end,
               !.intersections = @ \o following.intersections]
AdaptStepSignage(step, origin) == [step EXCEPT !.sign = origin.sign]

-----------------------------------------------------------------------------
(* Aliases of the detectors (collapsing_utility.hpp)                       *)

MAX_COLLAPSE_DISTANCE == 30
NAME_SEGMENT_CUTOFF_LENGTH == 105
MIN_END_OF_ROAD_INTERSECTIONS == 2
NARROW_TURN_ANGLE == 40

At(step) == step.intersections[1]
hasTurnType(step) == step.type # "NoTurn"
hasWaypointType(step) == step.waypoint # "none"
hasLanes(step) == At(step).lanes.n # 0
numberOfAvailableTurns(step) == Len(At(step).entry)
AllowedAt(intersection) == Cardinality({i \in DOMAIN intersection.entry : intersection.entry[i]})
numberOfAllowedTurns(step) == AllowedAt(At(step))
isTrafficLightStep(step) ==
  step.type = "Suppressed" /\ numberOfAvailableTurns(step) = 2 /\ numberOfAllowedTurns(step) = 1
areSameSide(a, b) ==
  \/ {a.modifier, b.modifier} \subseteq LeftModifiers \cup {"Straight"}
  \/ {a.modifier, b.modifier} \subseteq RightModifiers \cup {"Straight"}

HasNameOrRef(step) == step.sign.name # <<>> \/ step.sign.ref # <<>>
haveSameName(a, b) ==
  /\ HasNameOrRef(a) /\ HasNameOrRef(b)
  /\ a.sign.id = b.sign.id \/ ~requiresNameAnnounced(a.sign, b.sign, Affixes)

\* The bearing a step's turn is entered with, in driving direction, and left with.
BearingIn(step) == reverse(At(step).bearings[At(step).in])
BearingOut(step) == At(step).bearings[At(step).out]
TurnAngle(step) == angleBetween(BearingIn(step), BearingOut(step))
totalTurnAngle(a, b) ==
  LET entry == IF a.begin > b.begin THEN b ELSE a
      exit == IF a.begin > b.begin THEN a ELSE b
  IN IF At(exit).out = NO_INDEX \/ At(entry).in = NO_INDEX THEN BearingOut(entry)
     ELSE angleBetween(BearingIn(entry), BearingOut(exit))
bearingsAreReversed(bearing_in, bearing_out) ==
  LET left_turn_angle == IF bearing_out <= bearing_in THEN bearing_in - bearing_out
                         ELSE bearing_in + 360 - bearing_out
  IN angularDeviation(left_turn_angle, 180) <= 35

findPreviousTurn(steps, current) ==
  Max({i \in 1..(current - 1) : hasTurnType(steps[i]) \/ hasWaypointType(steps[i])})
findNextTurn(steps, current) ==
  Min({i \in (current + 1)..Len(steps) : hasTurnType(steps[i]) \/ hasWaypointType(steps[i])})

\* NO_TURN() is the type NoTurn with the modifier UTurn.
removeNoTurnInstructions(steps) ==
  SelectSeq(steps, LAMBDA s : ~(s.type = "NoTurn" /\ s.modifier = "UTurn" /\ s.waypoint = "none"))

isWiderStraight(angle) == angle >= 125 /\ angle <= 235
\* The turn into another road that deviates least from straight on; 360 without one.
getStraightestIntersectingEdgeTurn(step) ==
  LET others == {i \in DOMAIN At(step).bearings : i \notin {At(step).in, At(step).out} /\ At(step).entry[i]}
      turn(i) == angleBetween(BearingIn(step), At(step).bearings[i])
      deviation(i) == angularDeviation(turn(i), 180)
  IN IF others = {} THEN 360
     ELSE turn(Min({i \in others : \A k \in others : deviation(i) <= deviation(k)}))
hasStraightestTurn(step) ==
  LET other == getStraightestIntersectingEdgeTurn(step)
  IN /\ isWiderStraight(TurnAngle(step))
     /\ angularDeviation(TurnAngle(step), other) > 10
          => angularDeviation(TurnAngle(step), 180) <= angularDeviation(other, 180)

-----------------------------------------------------------------------------
(* Assembling *)

Total(s) == FoldLeft(LAMBDA x, v : x + v, 0, s)
Indices(s) == [i \in DOMAIN s |-> i]

\* The duration, weight and length of a leg.
assembleLeg(leg) ==
  LET local == leg.path = <<>>
      duration == Total([i \in DOMAIN leg.path |-> leg.path[i].duration]) + leg.last.duration
                    - (IF local THEN leg.offset.duration ELSE 0)
  IN [distance |-> leg.end, duration |-> Max({0, duration}),
      weight |-> Total([i \in DOMAIN leg.path |-> leg.path[i].weight]) + leg.last.weight
                   - (IF local THEN leg.offset.weight ELSE 0)]

\* The two names driven on longest, in the order they are met first.
summarizeRoute(leg) ==
  LET segments == [i \in DOMAIN leg.path |-> [duration |-> leg.path[i].duration, id |-> Roads[leg.path[i].road].sign.id]]
                    \o (IF leg.last.duration <= 1 THEN <<>>
                        ELSE <<[duration |-> leg.last.duration, id |-> Roads[leg.target].sign.id]>>)
      ids == {segments[i].id : i \in DOMAIN segments} \ {0}
      of(id) == SelectSeq(segments, LAMBDA s : s.id = id)
      duration(id) == Total([i \in DOMAIN of(id) |-> of(id)[i].duration])
      position(id) == Min({i \in DOMAIN segments : segments[i].id = id})
      longest == Ordered(ids, LAMBDA a, b : duration(a) > duration(b)
                                              \/ (duration(a) = duration(b) /\ position(a) < position(b)))
  IN Ordered(ToSet(SubSeq(longest, 1, Min({2, Len(longest)}))), LAMBDA a, b : position(a) < position(b))

assembleGeometry(leg) ==
  LET add(g, p) ==
        LET turns == p.type # "NoTurn"
            closed == IF ~turns THEN [g EXCEPT !.cumulative = @ + p.at - g.at]
                      ELSE [g EXCEPT !.segment_distances = Append(@, g.cumulative + p.at - g.at),
                                     !.segment_offsets = Append(@, Len(g.locations) + 1),
                                     !.cumulative = 0]
        IN IF p.node = Last(g.node_ids) /\ ~turns THEN [closed EXCEPT !.at = p.at]
           ELSE [closed EXCEPT !.at = p.at, !.locations = Append(@, p.at), !.node_ids = Append(@, p.node),
                   !.annotations = Append(@, [distance |-> p.at - g.at, mode |-> Roads[p.road].mode,
                                              duration |-> p.duration - p.turn])]
      all == FoldLeft(add, [locations |-> <<0>>, node_ids |-> <<leg.start>>, annotations |-> <<>>, at |-> 0,
                            segment_distances |-> <<>>, segment_offsets |-> <<1>>, cumulative |-> 0], leg.path)
      lone == leg.last.duration - leg.offset.duration
  IN [locations |-> Append(all.locations, leg.end),
      annotations |-> Append(all.annotations,
                        [distance |-> leg.end - all.at, mode |-> Roads[leg.target].mode,
                         duration |-> IF all.annotations # <<>> THEN leg.last.duration
                                      ELSE IF lone < 0 THEN -lone ELSE lone]),
      segment_distances |-> Append(all.segment_distances, all.cumulative + leg.end - all.at),
      segment_offsets |-> Append(all.segment_offsets, Len(all.locations) + 1)]

NewStep(from, road, mode, waypoint, type, modifier, bearings, at) ==
  [from |-> from, sign |-> Roads[road].sign, segregated |-> Roads[road].segregated, mode |-> mode, rotary |-> <<>>,
   waypoint |-> waypoint, type |-> type, modifier |-> modifier, bearings |-> bearings, exit |-> 0, intersections |-> <<at>>,
   duration |-> 0, distance |-> 0, weight |-> 0, begin |-> 0, end |-> 0]

\* A step runs from its turn to the next one: its maneuver and intersection come from
\* the point before, its duration and weight from the points up to the next turn.  The
\* name is that of the first road after the turn, the mode that of the last one.
assembleSteps(leg, geometry) ==
  LET turns == SelectSeq(Indices(leg.path), LAMBDA i : leg.path[i].type # "NoTurn")
      n == Len(turns)
      from(k) == IF k = 1 THEN 1 ELSE turns[k - 1] + 1
      to(k) == IF k > n THEN Len(leg.path) ELSE turns[k]
      sum(k, f(_)) == Total([i \in 1..(to(k) - from(k) + 1) |-> f(leg.path[from(k) + i - 1])])
      last(k) == k = n + 1
      road(k) == IF k = 1 THEN leg.source ELSE IF from(k) > Len(leg.path) THEN leg.target ELSE leg.path[from(k)].road
      local == leg.path = <<>>
      begun(k) ==
        LET mode == IF last(k) THEN Roads[leg.target].mode ELSE Roads[leg.path[to(k)].road].mode
            id == IF local THEN leg.source ELSE leg.path[to(k)].road
        IN IF k = 1 THEN NewStep(id, road(k), mode, "depart", "NoTurn", "UTurn", <<0, 90>>, Waypoint(NO_INDEX, 1))
           ELSE LET p == leg.path[turns[k - 1]]
                IN NewStep(id, road(k), mode, "none", p.type, p.modifier, p.bearings, p.intersection)
      step(k) ==
        LET duration == sum(k, LAMBDA p : p.duration) + (IF last(k) THEN leg.last.duration ELSE 0)
            weight == sum(k, LAMBDA p : p.weight) + (IF last(k) THEN leg.last.weight ELSE 0)
        IN [begun(k) EXCEPT !.duration = IF local THEN Max({0, duration - leg.offset.duration}) ELSE duration,
              !.weight = IF local THEN weight - leg.offset.weight ELSE weight,
              !.distance = geometry.segment_distances[k],
              !.begin = geometry.segment_offsets[k], !.end = geometry.segment_offsets[k + 1] + 1]
      arrive == [NewStep(leg.target, leg.target, Roads[leg.target].mode, "arrive", "NoTurn", "UTurn", <<90, 0>>,
                         Waypoint(1, NO_INDEX)) EXCEPT !.begin = Len(geometry.locations), !.end = Len(geometry.locations) + 1]
  IN Value(Append([k \in 1..(n + 1) |-> step(k)], arrive))

-----------------------------------------------------------------------------
(* Steps close to each other are combined into one where a driver sees one *)
(* maneuver (engine/guidance/collapse_scenario_detection.cpp and           *)
(* collapse_turns.cpp).  Combining joins the ways of two steps, keeps the  *)
(* first one's place and invalidates the second; the type, the signage and *)
(* the lanes of the result are chosen by the scenario.                     *)

-----------------------------------------------------------------------------
(* Scenarios *)

noIntermediaryIntersections(step) ==
  \A i \in 2..Len(step.intersections) : Len(step.intersections[i].entry) = 2
isLinkRoad(before, link, after) ==
  /\ link.distance <= 2 * MAX_COLLAPSE_DISTANCE /\ link.sign.name = <<>>
  /\ before.sign.name # <<>> /\ after.sign.name # <<>>
  /\ noIntermediaryIntersections(link)
isShortAndUndisturbed(step) == step.distance <= MAX_COLLAPSE_DISTANCE /\ noIntermediaryIntersections(step)
noBadUTurnCombination(first, second) ==
  \/ "UTurn" \notin {first.modifier, second.modifier}
  \/ first.type = "NewName" /\ second.modifier = "UTurn"
  \/ second.type = "NewName" /\ first.modifier = "UTurn"

basicCollapsePreconditions(first, second) ==
  /\ ~hasRoundaboutType(first.type) /\ ~hasRoundaboutType(second.type)
  /\ ~hasWaypointType(first) /\ ~hasWaypointType(second)
  /\ first.mode = second.mode /\ noBadUTurnCombination(first, second)
basicCollapsePreconditions3(first, second, third) ==
  /\ \A s \in {first, second, third} : ~hasRoundaboutType(s.type)
  /\ first.mode = second.mode /\ second.mode = third.mode
  /\ noBadUTurnCombination(first, second) \/ noBadUTurnCombination(second, third)

isStaggeredIntersection(prior, entering, leaving) ==
  LET is_right(s) == TurnAngle(s) > 45 /\ TurnAngle(s) < 135
      is_left(s) == TurnAngle(s) > 225 /\ TurnAngle(s) < 315
  IN /\ ~entersRoundabout(entering.type) /\ ~entersRoundabout(leaving.type)
     /\ entering.distance < 3
     /\ (is_left(entering) /\ is_right(leaving)) \/ (is_right(entering) /\ is_left(leaving))
     /\ ~(prior.mode = leaving.mode /\ entering.mode # leaving.mode)
     /\ prior.mode = entering.mode
     /\ noIntermediaryIntersections(entering)

isUTurn(prior, entering, leaving) ==
  /\ basicCollapsePreconditions3(prior, entering, leaving)
  /\ entering.type \in {"Turn", "Continue", "EndOfRoad"}
  /\ bearingsAreReversed(BearingIn(entering), BearingOut(leaving))
  /\ haveSameName(prior, leaving)
  /\ \/ isShortAndUndisturbed(entering)
     \/ isLinkRoad(prior, entering, leaving)
     \/ numberOfAllowedTurns(leaving) = 1 /\ noIntermediaryIntersections(entering)

StraightTurn(step, types) == step.type \in types /\ step.modifier = "Straight"
isNameOszillation(prior, entering, leaving) ==
  /\ basicCollapsePreconditions3(prior, entering, leaving)
  /\ entering.type = "NewName" \/ StraightTurn(entering, {"Turn"})
  /\ \/ leaving.type = "NewName" \/ StraightTurn(leaving, {"Turn"})
     \/ leaving.type = "Suppressed" /\ leaving.sign.id = 0
  /\ prior.sign.id = leaving.sign.id \/ haveSameName(prior, leaving)

NameChange(step) == step.type = "NewName" \/ StraightTurn(step, {"Turn", "Continue"})
Maneuver(step) == step.type \notin {"NoTurn", "Suppressed"}
SuppressedDirection(step) == step.type = "Suppressed" /\ step.modifier # "Straight"

maneuverPreceededByNameChange(prior, entering, leaving) ==
  /\ basicCollapsePreconditions3(prior, entering, leaving)
  /\ isShortAndUndisturbed(entering) /\ NameChange(entering) /\ Maneuver(leaving)
maneuverPreceededBySuppressedDirection(entering, leaving) ==
  /\ basicCollapsePreconditions(entering, leaving)
  /\ isShortAndUndisturbed(entering) /\ numberOfAllowedTurns(entering) > 1
  /\ SuppressedDirection(entering) /\ Maneuver(leaving) /\ areSameSide(entering, leaving)
maneuverSucceededByNameChange(entering, leaving) ==
  /\ basicCollapsePreconditions(entering, leaving)
  /\ \/ isShortAndUndisturbed(entering)
     \/ leaving.type = "NewName" /\ 2 * entering.distance <= 3 * MAX_COLLAPSE_DISTANCE
          /\ (leaving.modifier = "Straight" \/ numberOfAllowedTurns(leaving) = 1)
  /\ NameChange(leaving) /\ Maneuver(entering)
maneuverSucceededBySuppressedDirection(entering, leaving) ==
  /\ basicCollapsePreconditions(entering, leaving)
  /\ isShortAndUndisturbed(entering) /\ SuppressedDirection(leaving)
  /\ Maneuver(entering) /\ areSameSide(entering, leaving)
nameChangeImmediatelyAfterSuppressed(entering, leaving) ==
  /\ basicCollapsePreconditions(entering, leaving)
  /\ 4 * entering.distance < MAX_COLLAPSE_DISTANCE
  /\ entering.type = "Suppressed" /\ leaving.type = "NewName"
closeChoicelessTurnAfterTurn(entering, leaving) ==
  /\ basicCollapsePreconditions(entering, leaving)
  /\ isShortAndUndisturbed(entering) /\ entering.modifier # "Straight"
  /\ numberOfAllowedTurns(leaving) = 1 /\ leaving.type # "Suppressed"
doubleChoiceless(entering, leaving) ==
  /\ basicCollapsePreconditions(entering, leaving)
  /\ numberOfAllowedTurns(leaving) = 1
  /\ Len(entering.intersections) = 2 /\ AllowedAt(entering.intersections[2]) = 1
  /\ 2 * entering.distance < 3 * MAX_COLLAPSE_DISTANCE
straightTurnFollowedByChoiceless(entering, leaving) ==
  /\ basicCollapsePreconditions(entering, leaving)
  /\ entering.distance <= 2 * MAX_COLLAPSE_DISTANCE /\ StraightTurn(entering, {"Continue", "Turn"})
  /\ numberOfAllowedTurns(leaving) = 1 /\ noIntermediaryIntersections(entering)
suppressedStraightBetweenTurns(entering, center, leaving) ==
  LET lengths == {entering.distance, center.distance}
      angle == totalTurnAngle(entering, leaving)
  IN /\ basicCollapsePreconditions3(entering, center, leaving)
     /\ \A d \in lengths : 10 * d < 8 * MAX_COLLAPSE_DISTANCE
     /\ Max(lengths) < 5 \/ 4 * Min(lengths) > 3 * Max(lengths)
     /\ center.type = "Suppressed" /\ center.modifier = "Straight"
     /\ entering.type \in {"Turn", "Continue"} /\ leaving.type \in {"Turn", "Continue", "OnRamp"}
     /\ angle > NARROW_TURN_ANGLE /\ angle < 360 - NARROW_TURN_ANGLE

-----------------------------------------------------------------------------
(* Strategies: the first step, changed by what the second one is           *)

\* Two turns to one side count as one of the whole angle.
findTotalTurnAngle(a, b) ==
  LET entry == IF a.begin > b.begin THEN b ELSE a
      exit == IF a.begin > b.begin THEN a ELSE b
      total == angleBetween(BearingIn(entry), BearingOut(exit))
      same_side == \/ TurnAngle(entry) <= 185 /\ TurnAngle(exit) <= 185
                   \/ TurnAngle(entry) >= 175 /\ TurnAngle(exit) >= 175
  IN IF /\ 2 * angularDeviation(total, 180) >= NARROW_TURN_ANGLE
        /\ entry.distance < MAX_COLLAPSE_DISTANCE \/ same_side
     THEN total ELSE TurnAngle(entry)

TransferSignage(step, from) == [AdaptStepSignage(step, from) EXCEPT !.rotary = from.rotary]
TransferLanes(step, from) ==
  [step EXCEPT !.intersections[1].lanes = At(from).lanes, !.intersections[1].total = At(from).total]
AdjustToCombinedTurnAngle(step, from) ==
  IF step.type = "Fork" THEN step ELSE [step EXCEPT !.modifier = getTurnDirection(findTotalTurnAngle(step, from))]

CombinedType(step, from, modifier, same) ==
  IF NameChange(from) \/ NameChange(step) \/ step.type = "Suppressed" THEN
    CASE step.type = "Suppressed" ->
           IF modifier = "Straight" THEN "NewName" ELSE IF same THEN "Continue" ELSE "Turn"
      [] step.type = "NewName" /\ from.type = "Suppressed" /\ modifier # "Straight" -> "Turn"
      [] step.type = "Continue" /\ ~same -> "Turn"
      [] step.type = "Turn" /\ from.type # "Suppressed" /\ same -> "Continue"
      [] OTHER -> step.type
  ELSE
    CASE from.type = "OnRamp" -> "OnRamp"
      [] step.type = "Turn" /\ from.type = "Turn" /\ same -> "Continue"
      [] step.type = "Continue" /\ from.type = "Turn" /\ ~same -> "Turn"
      [] OTHER -> step.type
CombinedModifier(step, from) ==
  IF step.type \in {"Fork", "Merge"} THEN step.modifier ELSE getTurnDirection(findTotalTurnAngle(step, from))
AsCombined(step, from, modifier, same) ==
  [step EXCEPT !.type = CombinedType(step, from, modifier, same), !.modifier = modifier]
AdjustToCombinedTurn(prior, step, from) ==
  AsCombined(step, from, CombinedModifier(step, from), haveSameName(prior, from))
StaggeredTurn(prior, step, from) ==
  [step EXCEPT !.modifier = "Straight", !.type = IF haveSameName(prior, from) THEN "Suppressed" ELSE "NewName"]
CombineSegregatedSteps(step, from) ==
  IF "EndOfRoad" \in {step.type, from.type} THEN [step EXCEPT !.type = "EndOfRoad"] ELSE step
ContinueWithUTurn(step) == [step EXCEPT !.type = "Continue", !.modifier = "UTurn"]

\* By the maneuvers' bearings, which are kept more coarsely than those of the roads.
SegregatedTurn(prior, step, from) ==
  LET angle == angleBetween(step.bearings[1], from.bearings[2])
      direction == getTurnDirection(angle)
      on == IF haveSameName(prior, from) THEN "Suppressed" ELSE "NewName"
      turns == {"NewName", "Continue", "Suppressed", "Turn"}
      straight == from.type \in turns /\ from.modifier \in {"Straight", "SlightLeft", "SlightRight"}
      to(type, modifier) == [step EXCEPT !.type = type, !.modifier = modifier]
  IN CASE "EndOfRoad" \in {step.type, from.type} -> to("EndOfRoad", direction)
       [] "EndOfRoad" \notin {step.type, from.type} /\ step.type = "Fork" -> step
       [] OTHER ->
            IF direction = "Straight" /\ straight THEN to(on, direction)
            ELSE IF isWiderStraight(angle) /\ Len(step.intersections) = 1
                      /\ hasStraightestTurn(step) /\ hasStraightestTurn(from) THEN to(on, "Straight")
            ELSE IF direction # "Straight" /\ from.type \in turns THEN to("Turn", direction)
            ELSE to(from.type, direction)

-----------------------------------------------------------------------------
(* The steps of a leg, changed at one place *)

Join(steps, a, b, changed) ==
  [steps EXCEPT ![a] = ElongateBy(changed, steps[b]), ![b] = Invalidate(steps[b])]
Combined(steps, a, b, changed) == Join(steps, a, b, TransferSignage(changed, steps[b]))
suppressStep(steps, a, b) == Join(steps, a, b, steps[a])

handleSliproad(steps, current) ==
  LET next == Min({i \in (current + 1)..Len(steps) :
                     hasWaypointType(steps[i]) \/ (hasTurnType(steps[i]) /\ ~isTrafficLightStep(steps[i]))})
      lights == SelectSeq([i \in 1..(next - 1) |-> i], LAMBDA i : i > current /\ hasTurnType(steps[i]))
      passed == FoldLeft(LAMBDA s, i : suppressStep(s, current, i), steps, lights)
      previous == findPreviousTurn(steps, current)
      typed(type) == [passed[current] EXCEPT !.type = type]
      turn == typed(IF haveSameName(steps[previous], steps[next]) THEN "Continue" ELSE "Turn")
  IN IF hasWaypointType(steps[next]) THEN [passed EXCEPT ![current] = typed("Turn")]
     ELSE Join(passed, current, next,
               TransferLanes(TransferSignage(AdjustToCombinedTurnAngle(turn, passed[next]), passed[next]), passed[next]))

\* The scenario at the current step, if one applies.
CollapseScenario(steps, previous, current, next) ==
  LET p == steps[previous]
      c == steps[current]
      n == steps[next]
  IN IF isStaggeredIntersection(p, c, n) THEN Combined(steps, current, next, StaggeredTurn(p, c, n))
     ELSE IF isUTurn(p, c, n) THEN Combined(steps, current, next, ContinueWithUTurn(c))
     ELSE IF isNameOszillation(p, c, n) THEN suppressStep(suppressStep(steps, current, next), previous, current)
     ELSE IF maneuverPreceededByNameChange(p, c, n) \/ maneuverPreceededBySuppressedDirection(c, n)
       THEN suppressStep([steps EXCEPT ![next] = AdjustToCombinedTurn(p, n, c)], previous, current)
     ELSE IF \/ maneuverSucceededByNameChange(c, n) \/ nameChangeImmediatelyAfterSuppressed(c, n)
             \/ maneuverSucceededBySuppressedDirection(c, n) \/ closeChoicelessTurnAfterTurn(c, n)
             \/ straightTurnFollowedByChoiceless(c, n)
       THEN Combined(steps, current, next, AdjustToCombinedTurn(p, c, n))
     ELSE IF suppressedStraightBetweenTurns(p, c, n)
       THEN LET joined == suppressStep(steps, previous, current)
                far_back == findPreviousTurn(steps, previous)
            IN Combined(joined, previous, next, AdjustToCombinedTurn(joined[far_back], joined[previous], n))
     ELSE steps

\* What becomes possible once steps were joined: a turn without a choice, a late u-turn.
CollapseChoiceless(steps, previous, current, next) ==
  IF ~doubleChoiceless(steps[current], steps[next]) THEN steps
  ELSE Combined(steps, current, next, AdjustToCombinedTurn(steps[previous], steps[current], steps[next]))
CollapseLateUTurn(steps, previous, current) ==
  IF \/ hasWaypointType(steps[previous])
     \/ ~isUTurn(steps[findPreviousTurn(steps, previous)], steps[previous], steps[current]) THEN steps
  ELSE Combined(steps, previous, current, ContinueWithUTurn(steps[previous]))
CollapseAgain(steps, previous, current) ==
  CollapseLateUTurn(CollapseChoiceless(steps, previous, current, findNextTurn(steps, current)), previous, current)

collapseTurnInstructions(steps) ==
  LET visit(at, current) ==
        LET all == at.steps
            c == all[current]
            next == findNextTurn(all, current)
            previous == findPreviousTurn(all, current)
        IN IF at.done \/ entersRoundabout(c.type) \/ staysOnRoundabout(c.type) \/ ~hasTurnType(c) THEN at
           ELSE IF c.type = "Sliproad" THEN [at EXCEPT !.steps = handleSliproad(all, current)]
           ELSE IF hasWaypointType(all[next]) THEN [at EXCEPT !.done = TRUE]
           ELSE IF c.mode # all[next].mode THEN at
           ELSE [at EXCEPT !.steps = CollapseAgain(CollapseScenario(all, previous, current, next), previous, current)]
  IN InTurn(visit, [steps |-> steps, done |-> FALSE],
            SubSeq(Indices(steps), 2, Len(steps) - 1)).steps

\* Parts of a segregated intersection are joined to each other and to the step after it.
collapseSegregatedTurnInstructions(steps) ==
  LET visit(at, next) ==
        LET c == at.steps[at.current]
            n == at.steps[next]
            prior == at.steps[findPreviousTurn(at.steps, at.current)]
        IN IF c.segregated /\ n.segregated
             THEN [at EXCEPT !.steps = Join(@, at.current, next,
                                            TransferLanes(TransferSignage(CombineSegregatedSteps(c, n), n), n))]
           ELSE IF c.segregated /\ ~hasRoundaboutType(c.type) /\ ~hasRoundaboutType(n.type)
             THEN LET turn == IF bearingsAreReversed(BearingIn(c), BearingOut(n)) THEN ContinueWithUTurn(c)
                              ELSE SegregatedTurn(prior, c, n)
                  IN [at EXCEPT !.steps = Combined(@, at.current, next, [turn EXCEPT !.segregated = FALSE])]
           ELSE [at EXCEPT !.current = next]
  IN IF Len(steps) <= 2 THEN steps
     ELSE removeNoTurnInstructions(InTurn(visit, [steps |-> steps, current |-> 2],
                                          SubSeq(Indices(steps), 3, Len(steps) - 1)).steps)

-----------------------------------------------------------------------------
(* The steps of a leg on their way into the answer (RouteAPI::MakeLegs,    *)
(* engine/guidance/post_processing.cpp, lane_processing.cpp,               *)
(* verbosity_reduction.cpp): assembled, overridden, joined at segregated   *)
(* intersections, trimmed, freed of roundabouts' inner steps, collapsed,   *)
(* given lanes, and at last joined over silent turns and short names.      *)

CONSTANTS Legs, None
VARIABLE job

-----------------------------------------------------------------------------
(* Maneuver overrides *)

\* How far the steps from `current` on follow the roads of an override: the first step
\* not looked at, or None when they do not; steps repeating a road are passed over.
FollowedUpTo(steps, current, nodes) ==
  LET look(at, k) ==
        IF at.failed \/ at.found = Len(nodes) THEN at
        ELSE IF nodes[at.found + 1] = steps[k].from THEN [at EXCEPT !.found = @ + 1, !.next = k + 1]
        ELSE IF steps[k - 1].from = steps[k].from THEN [at EXCEPT !.next = k + 1]
        ELSE [at EXCEPT !.failed = TRUE]
      all == FoldLeft(look, [found |-> 0, next |-> current, failed |-> FALSE],
                      SubSeq(Indices(steps), current, Len(steps)))
  IN IF all.found = Len(nodes) THEN all.next ELSE None

\* The step that begins where an override applies gets its type and modifier.
Override(steps, geometry, current, override) ==
  LET next == FollowedUpTo(steps, current, override.nodes)
      there == {k \in current..(next - 1) : geometry.locations[steps[k].begin] = override.at}
  IN IF next = None THEN steps
     ELSE IF there = {} THEN steps
     ELSE [steps EXCEPT ![Min(there)].type = IF override.type = None THEN @ ELSE override.type,
                        ![Min(there)].modifier = IF override.modifier = None THEN @ ELSE override.modifier]
applyOverrides(steps, geometry, overrides) ==
  InTurn(LAMBDA s, k : FoldLeft(LAMBDA t, o : IF o.nodes[1] = t[k].from THEN Override(t, geometry, k, o) ELSE t,
                                s, overrides),
         steps, Indices(steps))

-----------------------------------------------------------------------------
(* The ends of a leg *)

\* A first step of at most a metre is left out, its duration kept; otherwise a first
\* location that is as close to the second is.  The bearings announced at either end
\* are measured again by the code; no later pass reads them, and they stay as they are.
TrimStart(steps, geometry) ==
  LET zero_length_step == steps[1].distance <= 1 /\ Len(steps) > 2
      duplicated_coordinate == geometry.locations[2] - geometry.locations[1] <= 1
      offset == IF zero_length_step THEN geometry.segment_offsets[2] - 1 ELSE 1
      second == At(steps[2])
      depart == [steps[2] EXCEPT !.duration = @ + steps[1].duration, !.waypoint = "depart",
                   !.type = "NoTurn", !.modifier = "UTurn",
                   !.intersections[1] = [Waypoint(NO_INDEX, 1) EXCEPT !.bearings = <<second.bearings[second.out]>>]]
      kept == IF zero_length_step THEN <<depart>> \o SubSeq(steps, 3, Len(steps))
              ELSE [steps EXCEPT ![1].begin = 2]
      offsets == IF zero_length_step THEN Tail(geometry.segment_offsets) ELSE geometry.segment_offsets
  IN IF ~zero_length_step /\ ~duplicated_coordinate THEN [steps |-> steps, geometry |-> geometry]
     ELSE [steps |-> [k \in DOMAIN kept |-> [kept[k] EXCEPT !.begin = @ - offset, !.end = @ - offset]],
           geometry |-> [geometry EXCEPT !.segment_distances = Tail(@),
                                         !.locations = SubSeq(@, offset + 1, Len(@)),
                                         !.annotations = SubSeq(@, offset + 1, Len(@)),
                                         !.segment_offsets = [i \in DOMAIN offsets |-> offsets[i] - offset]]]

\* At the end the last way of at most a metre makes its turn the arrival, on the road
\* before; otherwise a last location as close to the one before it is left out.
TrimEnd(steps, geometry) ==
  LET n == Len(steps)
      before == steps[n - 1]
      offsets == Front(geometry.segment_offsets)
      kept == Last(offsets)
      back == Last(before.intersections)
      shown == [before EXCEPT !.intersections[1].lanes = NoLanes, !.intersections[1].total = 0]
      arrive == [shown EXCEPT !.waypoint = "arrive", !.type = "NoTurn", !.modifier = "UTurn", !.end = before.begin + 1,
                   !.intersections[Len(before.intersections)] = [Waypoint(1, NO_INDEX) EXCEPT !.bearings = <<back.bearings[back.in]>>],
                   !.sign = steps[n - 2].sign, !.mode = steps[n - 2].mode]
      m == Len(geometry.locations)
  IN IF before.distance <= 1 /\ n > 2
       THEN [steps |-> Append(SubSeq(steps, 1, n - 2), arrive),
             geometry |-> [geometry EXCEPT !.segment_offsets = offsets, !.segment_distances = Front(@),
                                           !.locations = SubSeq(@, 1, kept), !.annotations = SubSeq(@, 1, kept - 1)]]
     ELSE IF geometry.locations[m] - geometry.locations[m - 1] <= 1
       THEN [steps |-> [steps EXCEPT ![n - 1].end = @ - 1, ![n].begin = @ - 1, ![n].end = @ - 1],
             geometry |-> [geometry EXCEPT !.segment_offsets[Len(geometry.segment_offsets)] = @ - 1,
                                           !.locations = Front(@), !.annotations = Front(@)]]
     ELSE [steps |-> steps, geometry |-> geometry]

trimShortSegments(steps, geometry) ==
  IF Len(steps) < 2 \/ Len(geometry.locations) <= 2 THEN [steps |-> steps, geometry |-> geometry]
  ELSE LET trimmed == TrimStart(steps, geometry)
       IN IF Len(trimmed.steps) < 2 \/ Len(trimmed.geometry.locations) = 2 THEN trimmed
          ELSE TrimEnd(trimmed.steps, trimmed.geometry)

assignRelativeLocations(steps, sides) ==
  [steps EXCEPT ![1].modifier = sides[1], ![Len(steps)].modifier = sides[2]]

resyncGeometry(geometry, steps) ==
  [geometry EXCEPT !.segment_offsets = <<1>> \o [k \in 1..(Len(steps) - 1) |-> steps[k].end - 1],
                   !.segment_distances = [k \in 1..(Len(steps) - 1) |-> steps[k].distance]]

-----------------------------------------------------------------------------
(* Roundabouts *)

\* Which steps lie on a roundabout: from entering to leaving it, or from the start when
\* the first step of a roundabout does not enter it.
OnRoundabout(steps, starts_on) ==
  FoldLeft(LAMBDA at, s : [on |-> (at.on \/ entersRoundabout(s.type)) /\ ~leavesRoundabout(s.type),
                           flags |-> Append(at.flags, at.on \/ entersRoundabout(s.type))],
           [on |-> starts_on, flags |-> <<>>], steps).flags

compressRange(steps, begin, last) ==
  FoldLeft(LAMBDA s, k : IF k <= begin \/ k > last \/ hasWaypointType(s[k]) THEN s ELSE suppressStep(s, begin, k),
           steps, Indices(steps))

Rotaries == {"EnterRotary", "EnterRotaryAtExit"}
RoundaboutTurns == {"EnterRoundaboutIntersection", "EnterRoundaboutIntersectionAtExit"}
processRoundaboutExits_Passed(steps, begin, last) ==
  LET b == steps[begin]
      l == steps[last]
      exit == Cardinality({k \in begin..(last - 1) : staysOnRoundabout(steps[k].type) \/ leavesRoundabout(steps[k].type)})
      named == IF b.type \in Rotaries THEN [b EXCEPT !.rotary = b.sign.name] ELSE b
      entered == [AdaptStepSignage(named, l) EXCEPT !.exit = exit,
                    !.modifier = IF b.type \in RoundaboutTurns THEN getTurnDirection(angleBetween(BearingIn(b), BearingOut(l)))
                                 ELSE @]
      numbered == [steps EXCEPT ![last].exit = exit]
      counted == IF entersRoundabout(b.type) THEN [numbered EXCEPT ![begin] = entered] ELSE numbered
  IN IF ~leavesRoundabout(l.type)
       THEN compressRange([steps EXCEPT ![begin] = IF b.type \in RoundaboutTurns
                                                   THEN [b EXCEPT !.type = "EnterRoundabout"] ELSE named], begin, last)
     ELSE compressRange(counted, begin, IF b.type \in RoundaboutTurns /\ b.mode = l.mode THEN last ELSE last - 1)
processRoundaboutExits(steps, begin, last) ==
  LET b == steps[begin]
      l == steps[last]
      exit == Cardinality({k \in begin..last : staysOnRoundabout(steps[k].type) \/ leavesRoundabout(steps[k].type)})
      named == IF b.type \in Rotaries THEN [b EXCEPT !.rotary = b.sign.name] ELSE b
      entered == [AdaptStepSignage(named, l) EXCEPT !.exit = exit,
                    !.modifier = IF b.type \in RoundaboutTurns THEN getTurnDirection(angleBetween(BearingIn(b), BearingOut(l)))
                                 ELSE @]
      numbered == [steps EXCEPT ![last].exit = exit]
      counted == IF entersRoundabout(b.type) THEN [numbered EXCEPT ![begin] = entered] ELSE numbered
  IN IF ~leavesRoundabout(l.type)
       THEN compressRange([steps EXCEPT ![begin] = IF b.type \in RoundaboutTurns
                                                   THEN [b EXCEPT !.type = "EnterRoundabout"] ELSE named], begin, last)
     ELSE compressRange(counted, begin, IF b.type \in RoundaboutTurns /\ b.mode = l.mode THEN last ELSE last - 1)

\* The ways through roundabouts, one from each entry or exit to the next exit.
handleRoundabouts(steps) ==
  LET typed == {k \in DOMAIN steps : hasRoundaboutType(steps[k].type)}
      on == OnRoundabout(steps, ~entersRoundabout(steps[Min(typed)].type))
      begins(k) == on[k] /\ (k = 1 \/ ~on[k - 1] \/ leavesRoundabout(steps[k - 1].type))
      ends(k) == on[k] /\ (k = Len(steps) \/ ~on[k + 1] \/ leavesRoundabout(steps[k].type))
  IN IF typed = {} THEN steps
     ELSE removeNoTurnInstructions(
            FoldLeft(LAMBDA s, k : IF ~begins(k) THEN s
                                   ELSE processRoundaboutExits(s, k, Min({e \in k..Len(steps) : ends(e)})),
                     steps, Indices(steps)))

-----------------------------------------------------------------------------
(* Lanes *)

Byte(x) == x % 256
LanesToTheRight(step) == IF At(step).total = 0 THEN 0 ELSE At(step).lanes.first
LanesToTheLeft(step) == IF At(step).total = 0 THEN 0
                        ELSE Byte(At(step).total - (At(step).lanes.n + At(step).lanes.first))
LANE_CHANGE_DISTANCE == 200

QuickLanes(step) ==
  hasLanes(step) /\ step.distance < (1 + Max({LanesToTheRight(step), LanesToTheLeft(step)})) * LANE_CHANGE_DISTANCE

\* The lanes of a turn followed by a turn with fewer lanes are those that lead on to it;
\* a turn straight on is taken to the side of the turn after it.  at.to[k] is that side.
ConstrainLanes(at, k) ==
  LET current == at.steps[k]
      previous == at.steps[k - 1]
      now == At(current).lanes
      before == At(previous).lanes
      distance == IF previous.type = "Suppressed" THEN at.distance + previous.distance ELSE 0
      side(step, i) == IF isLeftTurn(step.type, step.modifier) THEN "left"
                       ELSE IF isRightTurn(step.type, step.modifier) THEN "right" ELSE at.to[i]
      straight == ~isLeftTurn(previous.type, previous.modifier) /\ ~isRightTurn(previous.type, previous.modifier)
      first == IF side(current, k) = "left"
               THEN Byte(Byte(before.first + before.n - now.n) - Min({LanesToTheLeft(current), now.n}))
               ELSE Byte(before.first + Min({LanesToTheRight(current), now.n}))
      lanes == [n |-> now.n, first |-> first]
      constrained == [at.steps EXCEPT ![k - 1].intersections[1].lanes = lanes]
      alike == previous.type = "Suppressed" /\ current.type = "Suppressed" /\ previous.mode = current.mode /\ lanes = now
  IN IF before.n <= 1 \/ before.n <= now.n \/ distance > (before.n - now.n) * LANE_CHANGE_DISTANCE
       THEN [at EXCEPT !.distance = distance]
     ELSE [steps |-> IF alike THEN suppressStep(constrained, k - 1, k) ELSE constrained, distance |-> distance,
           to |-> [at.to EXCEPT ![k - 1] = IF straight THEN side(current, k) ELSE @]]

anticipateLaneChange(steps) ==
  LET quick(k) == QuickLanes(steps[k])
      pairs == SelectSeq([i \in 1..(Len(steps) - 1) |-> Len(steps) + 1 - i], LAMBDA k : quick(k) /\ quick(k - 1))
      visit(at, k) == ConstrainLanes(IF k < Len(steps) /\ quick(k + 1) THEN at ELSE [at EXCEPT !.distance = 0], k)
  IN removeNoTurnInstructions(
       InTurn(visit, [steps |-> steps, distance |-> 0, to |-> [k \in DOMAIN steps |-> "none"]], pairs).steps)

-----------------------------------------------------------------------------
(* Silent turns and short names *)

\* Suppressed turns become intersections of the step before; the end of a road is only
\* announced as such after passing another intersection.
buildIntersections(steps) ==
  LET visit(at, k) ==
        LET s == at.steps[k]
            before == at.steps[at.valid]
            same_name == HasNameOrRef(s) /\ ~requiresNameAnnounced(before.sign, s.sign, Affixes)
            plain == s.type = "EndOfRoad" /\ Len(before.intersections) < MIN_END_OF_ROAD_INTERSECTIONS
        IN IF s.type = "Suppressed" THEN [at EXCEPT !.steps = suppressStep(@, at.valid, k)]
           ELSE IF isSilent(s.type) THEN at
           ELSE [steps |-> IF ~plain THEN at.steps
                           ELSE [at.steps EXCEPT ![k].type = IF same_name THEN "Continue" ELSE "Turn"],
                 valid |-> k]
  IN removeNoTurnInstructions(InTurn(visit, [steps |-> steps, valid |-> 1], Indices(steps)).steps)

suppressShortNameSegments(steps) ==
  LET visit(at, k) ==
        LET s == at.steps
            extends(j) == ~hasWaypointType(s[j]) /\ s[j].type \in {"NoTurn", "Suppressed"}
            length(j) == Total([i \in 1..(j - k + 1) |-> s[k + i - 1].distance])
            last == Min({j \in k..(Len(s) - 1) : ~extends(j + 1) \/ length(j) >= NAME_SEGMENT_CUTOFF_LENGTH})
        IN IF k <= at.current \/ hasWaypointType(s[k]) THEN at
           ELSE IF s[k].type # "NewName" \/ hasLanes(s[k]) \/ s[at.previous].mode # s[k].mode
             THEN [at EXCEPT !.previous = k]
           ELSE IF haveSameName(s[at.previous], s[k]) THEN [at EXCEPT !.steps = suppressStep(@, at.previous, k)]
           ELSE IF length(last) < NAME_SEGMENT_CUTOFF_LENGTH
             THEN [at EXCEPT !.steps = suppressStep(@, at.previous, last), !.current = last]
           ELSE [at EXCEPT !.previous = k, !.current = last]
  IN removeNoTurnInstructions(InTurn(visit, [steps |-> steps, previous |-> 1, current |-> 1], Indices(steps)).steps)

-----------------------------------------------------------------------------
(* MakeLegs, one stage after the other *)

Stage(from, to, steps, geometry) ==
  /\ job.stage = from
  /\ job' = [job EXCEPT !.stage = to, !.steps = steps, !.geometry = geometry]

Assemble ==
  /\ job.stage = "assemble"
  /\ LET geometry == assembleGeometry(job.leg)
     IN job' = [job EXCEPT !.stage = "override", !.geometry = geometry, !.steps = assembleSteps(job.leg, geometry),
                  !.total = assembleLeg(job.leg), !.summary = summarizeRoute(job.leg)]
Overrides == Stage("override", "segregated", applyOverrides(job.steps, job.geometry, job.leg.overrides), job.geometry)
Segregated == Stage("segregated", "trim", collapseSegregatedTurnInstructions(job.steps), job.geometry)
Trim == LET trimmed == trimShortSegments(job.steps, job.geometry)
        IN Stage("trim", "roundabouts", trimmed.steps, trimmed.geometry)
Roundabouts == Stage("roundabouts", "collapse", handleRoundabouts(job.steps), job.geometry)
Collapse == Stage("collapse", "lanes", collapseTurnInstructions(job.steps), job.geometry)
Lanes == Stage("lanes", "intersections", anticipateLaneChange(job.steps), job.geometry)
Intersections == Stage("intersections", "names", buildIntersections(job.steps), job.geometry)
Names == Stage("names", "ends", suppressShortNameSegments(job.steps), job.geometry)
Ends == LET located == assignRelativeLocations(job.steps, job.leg.sides)
        IN Stage("ends", "done", located, resyncGeometry(job.geometry, located))

Init ==
  \E leg \in Legs :
    job = [service |-> "steps", leg |-> leg, stage |-> "assemble", steps |-> <<>>, geometry |-> None,
           total |-> None, summary |-> <<>>]
Next == Assemble \/ Overrides \/ Segregated \/ Trim \/ Roundabouts \/ Collapse \/ Lanes \/ Intersections \/ Names \/ Ends

-----------------------------------------------------------------------------
(* Properties *)

Assembled == job.service = "steps" /\ job.stage # "assemble"
Answered == job.service = "steps" /\ job.stage = "done"
\* The steps that are not invalidated.
ValidSteps == SelectSeq(job.steps, LAMBDA s : hasTurnType(s) \/ hasWaypointType(s))

\* At every stage the steps tile the leg's geometry: each begins at the location where
\* the one before it ends, the first at the first location, and the arrival is the last.
StepsTile ==
  Assembled =>
    LET steps == ValidSteps
    IN /\ steps[1].begin = 1 /\ steps[1].waypoint = "depart"
       /\ \A k \in 1..(Len(steps) - 1) : steps[k].end = steps[k + 1].begin + 1 /\ steps[k].begin < steps[k].end
       /\ Last(steps).begin = Len(job.geometry.locations) /\ Last(steps).waypoint = "arrive"
       /\ Len(job.geometry.annotations) = Len(job.geometry.locations) - 1

\* However steps are joined and trimmed, their durations add up to the leg's, and the
\* annotations with the turns' own durations did so when they were assembled.
DurationKept ==
  Assembled =>
    /\ Total([k \in DOMAIN job.steps |-> job.steps[k].duration]) = job.total.duration
    /\ job.stage = "override" /\ Len(job.geometry.annotations) = Len(job.leg.path) + 1 =>
         Total([k \in DOMAIN job.geometry.annotations |-> job.geometry.annotations[k].duration])
           + Total([k \in DOMAIN job.leg.path |-> job.leg.path[k].turn]) = job.total.duration

\* A step's length is that of its part of the geometry, but for a metre cut off at
\* either end of the leg.
StepCoversItsWay ==
  Assembled =>
    \A k \in DOMAIN ValidSteps :
      LET s == ValidSteps[k]
          way == job.geometry.locations[s.end - 1] - job.geometry.locations[s.begin]
      IN s.distance >= way /\ s.distance - way <= (IF k <= 1 THEN 1 ELSE 0) + (IF k >= Len(ValidSteps) - 1 THEN 1 ELSE 0)

\* A change of the travel mode is never hidden inside a step, but where it happens at
\* an intersection of segregated roads, on a roundabout or after a sliproad, where steps
\* are joined whatever their modes, or where an override may suppress it.
StepModes ==
  Answered /\ job.leg.overrides = <<>> /\ (\A k \in DOMAIN job.leg.path :
                LET road == Roads[job.leg.path[k].road]
                    next == Roads[IF k = Len(job.leg.path) THEN job.leg.target ELSE job.leg.path[k + 1].road]
                IN road.mode # next.mode => ~road.segregated /\ ~next.segregated /\ ~hasRoundaboutType(job.leg.path[k].type)
                                            /\ \A j \in 1..k : job.leg.path[j].type # "Sliproad") =>
    \A k \in DOMAIN job.steps : \A i \in job.steps[k].begin..(job.steps[k].end - 2) :
      job.geometry.annotations[i].mode = job.steps[k].mode

\* Between depart and arrive only turns that mean something are announced: none that
\* only mark a place, and no name that is the same, or lasts for less than the cutoff.
OnlyAnnounced ==
  Answered =>
    /\ \A k \in 2..(Len(job.steps) - 1) :
         /\ ~hasWaypointType(job.steps[k]) /\ ~isSilent(job.steps[k].type) /\ job.steps[k].type # "Sliproad"
         /\ job.steps[k].type = "NewName" /\ ~hasLanes(job.steps[k]) /\ job.steps[k - 1].mode = job.steps[k].mode =>
              /\ ~haveSameName(job.steps[k - 1], job.steps[k])
              /\ job.steps[k].distance >= NAME_SEGMENT_CUTOFF_LENGTH

\* The exit announced where a roundabout is entered is the number of exits passed on the
\* way, with the one it is left by.
RoundaboutExits ==
  Answered /\ job.leg.overrides = <<>> =>
    \A i \in DOMAIN job.leg.path :
      LET type(k) == job.leg.path[k].type
          left == {k \in i..Len(job.leg.path) : leavesRoundabout(type(k))}
          entered == entersRoundabout(type(i)) /\ left # {}
          steps == {s \in ToSet(job.steps) : job.geometry.locations[s.begin] = job.leg.path[i].at /\ s.waypoint = "none"}
      IN entered => \A s \in steps :
           s.exit = Cardinality({k \in i..Min(left) : type(k) = "StayOnRoundabout" \/ type(k) \in EntersAtExit}) + 1

\* No pass over the steps of a leg loses a location or a second of it, nor more than the
\* metre that trimming cuts off at either end.
StepsWhole == StepsTile /\ DurationKept /\ StepCoversItsWay

\* What is announced at the steps is what happens there: changes of mode, turns that
\* mean something, exits counted right.
StepsAnnounced == StepModes /\ OnlyAnnounced /\ RoundaboutExits
=============================================================================
