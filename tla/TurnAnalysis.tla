---------------------------- MODULE TurnAnalysis ----------------------------
(* From the view of an intersection to its instructions: the handlers run  *)
(* in turn over the roads (guidance/turn_analysis.cpp), motorways,         *)
(* roundabouts, ordinary turns, sliproads and silenced turns.              *)
EXTENDS IntersectionAnalysis

-----------------------------------------------------------------------------
(* What the handlers of an intersection share                              *)
(* (guidance/intersection_handler.hpp, .cpp): which turn is obvious, the   *)
(* type of a turn and the instructions of forks.  via is the edge into the *)
(* intersection; a road of an intersection I carries its instruction as    *)
(* type and modifier.                                                      *)
Instruct(road, type, modifier) == [road EXCEPT !.type = type, !.modifier = modifier]

-----------------------------------------------------------------------------
(* Is a candidate distinct from every other road?                          *)
roadHasLowerClass(from, to, compare) ==
  \/ /\ strictlyLess(compare.cls, from.cls) /\ strictlyLess(compare.cls, to.cls)
     /\ compare.lanes > 0 /\ compare.lanes + 1 < from.lanes
  \/ isLinkTo(compare.cls, from.cls) /\ isLinkTo(compare.cls, to.cls)

\* The deviation of a road is well above that of the candidate, or above it at all.
IsDistinctDeviation(compare, candidate) ==
  compare > DISTINCTION_RATIO * candidate /\ 2 * (compare - candidate) > FUZZY_ANGLE_DIFFERENCE
IsSlightlyDistinctDeviation(compare, candidate) == 5 * compare > 7 * candidate

IsLaneFork(via, candidate, road) ==
  LET to == Edge(candidate.eid) compare == Edge(road.eid)
  IN /\ compare.lanes > 0 /\ to.lanes = compare.lanes
     /\ Edge(via).lanes = to.lanes + compare.lanes
     /\ angularDeviation(candidate.angle, road.angle) < GROUP_ANGLE

\* The road opposite to another one goes on as it.
ContinuesOpposite(I, opposing, road, only_compare_changes, lane_fork, distinct, slightly) ==
  LET same_name == ~Announced(opposing.eid, road.eid)
      angle == angularDeviation(road.angle, opposing.angle)
  IN \/ Size(I) >= 4 /\ (same_name \/ angle > STRAIGHT_ANGLE - NARROW_TURN_ANGLE) /\ distinct
     \/ /\ Size(I) >= 4 /\ only_compare_changes /\ slightly /\ same_name
        /\ angle > STRAIGHT_ANGLE - FUZZY_ANGLE_DIFFERENCE
     \/ /\ Size(I) < 4 /\ only_compare_changes /\ distinct /\ ~lane_fork
        /\ angle > STRAIGHT_ANGLE - GROUP_ANGLE

SECONDARY == 6
\* The priorities of the roads set a road apart from the candidate.
DiffersByClass(via, candidate, road, changes, compare_changes, distinct, slightly) ==
  LET from == Edge(via) to == Edge(candidate.eid) compare == Edge(road.eid)
      same_priority == from.cls.prio = to.cls.prio
  IN \/ from.cls.prio > SECONDARY /\ distinct
     \/ /\ to.lanes > 0 /\ to.lanes = from.lanes
        /\ Deviation(candidate) < FUZZY_ANGLE_DIFFERENCE /\ distinct
     \/ /\ same_priority /\ ~changes /\ slightly
        /\ to.cls.prio < compare.cls.prio \/ to.cls.prio > compare.cls.prio + 4
     \/ roadHasLowerClass(from, to, compare)
     \/ /\ same_priority /\ getRoadGroup(from.cls) < getRoadGroup(compare.cls)
        /\ Announced(candidate.eid, road.eid) /\ compare_changes
     \/ same_priority /\ compare.cls.link

\* changes, compare_changes: the name changes onto the candidate, onto the road.
IsSimilarGiven(I, via, candidate, road, changes, compare_changes, distinct, slightly) ==
  LET from == Edge(via) to == Edge(candidate.eid) compare == Edge(road.eid)
      lane_fork == IsLaneFork(via, candidate, road)
      opposing == I[FindClosestBearing(I, reverse(road.perceived))]
  IN /\ road.eid # candidate.eid
     /\ ~(Deviation(candidate) < NARROW_TURN_ANGLE /\ ~road.entry)
     /\ ~(~from.restricted /\ ~to.restricted /\ compare.restricted /\ distinct)
     /\ ~(/\ from.roundabout = to.roundabout /\ from.roundabout # compare.roundabout
          /\ Deviation(candidate) < Deviation(road))
     /\ ~(/\ ~changes \/ compare_changes
          /\ ~lane_fork /\ distinct)
     /\ ~ContinuesOpposite(I, opposing, road, ~changes /\ compare_changes, lane_fork, distinct, slightly)
     /\ ~DiffersByClass(via, candidate, road, changes, compare_changes, distinct, slightly)
IsSimilarNarrowTurn(I, via, candidate, road) ==
  IsSimilarGiven(I, via, candidate, road, Announced(via, candidate.eid), Announced(via, road.eid),
                 IsDistinctDeviation(Deviation(road), Deviation(candidate)),
                 IsSlightlyDistinctDeviation(Deviation(road), Deviation(candidate)))

IsDistinctNarrowTurn(via, candidate, I) ==
  \A k \in DOMAIN I \ {0} : ~IsSimilarNarrowTurn(I, via, I[candidate], I[k])

\* Where the road into the intersection bends, bearings close to it decide.
DistinctByInitialBearings(I, candidate, road) ==
  LET arriving == reverse(I[0].initial)
      deviates(r) == angularDeviation(angleBetween(arriving, r.initial), STRAIGHT_ANGLE)
  IN /\ angularDeviation(I[0].initial, I[0].perceived) > FUZZY_ANGLE_DIFFERENCE
     /\ getTurnDirection(angleBetween(reverse(road.initial), candidate.initial)) # "Straight"
     /\ deviates(road) > DISTINCTION_RATIO * deviates(candidate)

IsDistinctWideTurn(via, candidate, I) ==
  \A k \in DOMAIN I \ {0} :
    LET road == I[k]
    IN \/ road.eid = I[candidate].eid
       \/ /\ getTurnDirection(road.angle) # "Straight"
          /\ roadHasLowerClass(Edge(via), Edge(I[candidate].eid), Edge(road.eid))
       \/ Deviation(road) > DISTINCTION_RATIO * Deviation(I[candidate])
       \/ DistinctByInitialBearings(I, I[candidate], road)

IsDistinctTurn(via, candidate, I) ==
  IF Deviation(I[candidate]) < GROUP_ANGLE THEN IsDistinctNarrowTurn(via, candidate, I)
  ELSE IsDistinctWideTurn(via, candidate, I)

-----------------------------------------------------------------------------
(* findObviousTurn: the index of the obvious road, 0 when there is none.   *)
LowerCategory(via, road) ==
  strictlyLess(Edge(road.eid).cls, Edge(via).cls) \/ isLinkTo(Edge(road.eid).cls, Edge(via).cls)

DoesNotContinue(via, road) ==
  LET from == Edge(via) to == Edge(road.eid)
  IN \/ ~road.entry
     \/ EmptyId(from.sign) /\ ~from.cls.low
     \/ EmptyId(to.sign) /\ ~to.cls.low
     \/ EmptyId(from.sign) # EmptyId(to.sign)
     \/ LowerCategory(via, road)
     \/ Announced(via, road.eid)

IndexIfValid(via, k, I) == IF Edge(via).roundabout # Edge(I[k].eid).roundabout THEN 0 ELSE k

\* No road of the class of via is obvious: the straightmost one may be.
ObviousAt(via, I, straightmost_turn, k) ==
  LET road == I[k]
      only_non_sharp == /\ Deviation(road) <= 90
                        /\ Cardinality({j \in DOMAIN I : Deviation(I[j]) <= 90}) = 1
      all_same_name == \A j \in DOMAIN I : /\ ~EmptyId(Edge(I[j].eid).sign)
                                           /\ Edge(I[j].eid).sign = Edge(via).sign
      obvious ==
        \/ /\ k # straightmost_turn
           /\ Deviation(road) <= GROUP_ANGLE \/ only_non_sharp
           /\ ~Edge(road.eid).cls.low
           /\ IsDistinctTurn(via, k, I)
        \/ /\ IsMotorwayClass(Edge(road.eid).cls)
           /\ Deviation(road) <= GROUP_ANGLE /\ countEnterable(I) = 1
        \/ /\ Size(I) = 3 /\ all_same_name /\ countEnterable(I) = 1
           /\ \/ angularDeviation(I[1].angle, 90) > NARROW_TURN_ANGLE
              \/ angularDeviation(I[2].angle, 270) > NARROW_TURN_ANGLE
  IN IF k = Nowhere THEN 0 ELSE IF obvious THEN IndexIfValid(via, k, I) ELSE 0
ObviousOfAnyClass(via, I, straightmost_turn) ==
  ObviousAt(via, I, straightmost_turn, findClosestTurnOf(I, STRAIGHT_ANGLE, {j \in DOMAIN I : I[j].entry}))

ObviousAmong(via, I, continues, straightmost) ==
  LET distinct == {k \in {continues, straightmost} \ {Nowhere} : IsDistinctTurn(via, k, I)}
  IN IF continues \in distinct THEN IndexIfValid(via, continues, I)
     ELSE IF straightmost \in distinct THEN IndexIfValid(via, straightmost, I)
     ELSE ObviousOfAnyClass(via, I, straightmost)
findObviousTurn(via, I) ==
  IF Size(I) = 1 THEN 0
  ELSE IF Size(I) = 2 THEN 1
  ELSE ObviousAmong(via, I, findClosestTurnOf(I, STRAIGHT_ANGLE, {k \in DOMAIN I : ~DoesNotContinue(via, I[k])}),
                    findClosestTurnOf(I, STRAIGHT_ANGLE,
                                      {k \in DOMAIN I : I[k].entry /\ ~LowerCategory(via, I[k])}))

-----------------------------------------------------------------------------
(* Instructions.                                                           *)
findBasicTurnType(via, road) ==
  LET from == Edge(via) to == Edge(road.eid)
  IN IF ~IsRampClass(from.cls) /\ IsRampClass(to.cls) THEN "OnRamp"
     ELSE IF ~Unnamed(from.sign) /\ ~Unnamed(to.sign) /\ ~Announced(via, road.eid) THEN "Continue"
     ELSE "Turn"

areSameClasses(via, road) == Edge(via).classes = Edge(road.eid).classes
SuppressedType(via, road) == IF Edge(via).mode = Edge(road.eid).mode THEN "Suppressed" ELSE "Notification"
MAX_COLLAPSE_DISTANCE == 30

\* An obvious turn into a street that goes through, under a new name.
ObviousOntoThroughStreet(via, road) ==
  LET direction == getTurnDirection(road.angle)
  IN IF IsMotorwayClass(Edge(road.eid).cls)
     THEN Instruct(road, "Merge", IF road.angle > STRAIGHT_ANGLE THEN "SlightRight" ELSE "SlightLeft")
     ELSE IF IsRampClass(Edge(via).cls) /\ IsRampClass(Edge(road.eid).cls)
     THEN Instruct(road, SuppressedType(via, road), direction)
     ELSE Instruct(road, "Turn", IF Deviation(road) < NARROW_TURN_ANGLE
                                    /\ Distance(Target(via), Target(road.eid)) > 2 * MAX_COLLAPSE_DISTANCE
                                 THEN "Straight" ELSE direction)

ObviousInstruction(num_roads, via, through_street, road, type) ==
  LET direction == getTurnDirection(road.angle)
      notify == Edge(via).mode # Edge(road.eid).mode
  IN CASE type = "OnRamp" -> Instruct(road, "OnRamp", direction)
       [] type # "OnRamp" /\ road.angle = 0 -> Instruct(road, "Continue", "UTurn")
       [] type = "Turn" /\ road.angle # 0 /\ Announced(via, road.eid) ->
            IF through_street THEN ObviousOntoThroughStreet(via, road)
            ELSE Instruct(road, IF notify THEN "Notification" ELSE "NewName", direction)
       [] OTHER ->
            Instruct(road, IF notify THEN "Notification"
                           ELSE IF num_roads = 2 /\ areSameClasses(via, road) THEN "NoTurn"
                           ELSE "Suppressed", direction)
getInstructionForObvious(num_roads, via, through_street, road) ==
  ObviousInstruction(num_roads, via, through_street, road, findBasicTurnType(via, road))

WithTurn(via, road) == Instruct(road, findBasicTurnType(via, road), getTurnDirection(road.angle))

ForkBranch(via, road, other, modifier) ==
  LET low == Edge(road.eid).cls.low other_low == Edge(other.eid).cls.low
  IN Instruct(road, IF other_low /\ ~low THEN SuppressedType(via, road)
                    ELSE IF low /\ ~other_low THEN "Turn" ELSE "Fork", modifier)

assignFork2(via, I, left, right) ==
  [I EXCEPT ![left] = ForkBranch(via, I[left], I[right], "SlightLeft"),
            ![right] = ForkBranch(via, I[right], I[left], "SlightRight")]

requiresAnnouncement(from, to) ==
  LET f == Edge(from) t == Edge(to)
      oneway(e) == Edge(FindEdge(Target(e), Edge(e).source)).reversed
  IN \/ f.reversed # t.reversed
     \/ f.cls # t.cls \/ oneway(from) # oneway(to) \/ f.roundabout # t.roundabout
     \/ f.circular # t.circular \/ f.restricted # t.restricted
     \/ f.sign # t.sign \/ f.classes # t.classes \/ f.mode # t.mode \/ f.left_hand # t.left_hand

assignFork3(via, I, left, center, right) ==
  LET open == {k \in {left, center, right} : I[k].entry}
      silent == /\ Deviation(I[center]) < MAXIMAL_ALLOWED_NO_TURN_DEVIATION
                /\ ~requiresAnnouncement(via, I[center].eid)
  IN CASE open = {left, center, right} ->
            [I EXCEPT ![left] = Instruct(@, "Fork", "SlightLeft"),
                      ![center] = Instruct(@, IF silent THEN SuppressedType(via, @) ELSE "Fork", "Straight"),
                      ![right] = Instruct(@, "Fork", "SlightRight")]
       [] open = {left, right} -> assignFork2(via, I, left, right)
       [] open = {left, center} -> assignFork2(via, I, left, center)
       [] open = {center, right} -> assignFork2(via, I, center, right)
       [] OTHER -> [k \in DOMAIN I |-> IF k \in open THEN WithTurn(via, I[k]) ELSE I[k]]

assignTrivialTurns(via, I, begin, end) ==
  [k \in DOMAIN I |-> IF k \in begin..(end - 1) /\ I[k].entry THEN WithTurn(via, I[k]) ELSE I[k]]

isSameName(source, target) ==
  ~Unnamed(Edge(source).sign) /\ ~Unnamed(Edge(target).sign) /\ ~Announced(source, target)

isThroughStreet(index, I) ==
  /\ ~EmptyId(Edge(I[index].eid).sign)
  /\ \E k \in DOMAIN I \ {0, index} :
       /\ angularDeviation(I[k].angle, I[index].angle) > STRAIGHT_ANGLE - FUZZY_ANGLE_DIFFERENCE
       /\ HaveIdenticalNames(I[index].eid, I[k].eid)
       /\ Edge(I[index].eid).cls = Edge(I[k].eid).cls

-----------------------------------------------------------------------------
(* Instructions at ordinary intersections (guidance/turn_handler.cpp).     *)

MirroredModifier(modifier) ==
  CASE modifier = "SharpRight" -> "SharpLeft" [] modifier = "SharpLeft" -> "SharpRight"
    [] modifier = "Right" -> "Left" [] modifier = "Left" -> "Right"
    [] modifier = "SlightRight" -> "SlightLeft" [] modifier = "SlightLeft" -> "SlightRight"
    [] OTHER -> modifier

mirror_Angle(road) ==
  IF road.angle = 0 THEN road
  ELSE [road EXCEPT !.angle = 360 - @]
mirror(road) ==
  IF road.angle = 0 THEN road
  ELSE [road EXCEPT !.angle = 360 - @, !.modifier = MirroredModifier(@)]
SwitchLeftAndRight(I) == [k \in DOMAIN I |-> mirror(I[IF k = 0 THEN 0 ELSE Size(I) - k])]

-----------------------------------------------------------------------------
(* Forks.                                                                  *)
isOutermostForkCandidate(road1, road2) ==
  /\ Deviation(road2) > NARROW_TURN_ANGLE
  /\ \/ angularDeviation(road1.angle, road2.angle) > NARROW_TURN_ANGLE
     \/ Deviation(road1) > GROUP_ANGLE

NoFork == [right |-> 0, left |-> 0]

findForkCandidatesByGeometry(I) ==
  LET straightmost == findClosestTurn(I, STRAIGHT_ANGLE)
      right == Max({k \in 1..straightmost : isOutermostForkCandidate(I[k], I[k - 1])} \cup {0})
      left == Min({k \in straightmost..(Size(I) - 2) : isOutermostForkCandidate(I[k], I[k + 1])}
                  \cup {Size(I) - 1})
  IN IF /\ Size(I) >= 3 /\ Deviation(I[straightmost]) <= NARROW_TURN_ANGLE
        /\ right < left /\ left - right < 3
     THEN [right |-> right, left |-> left] ELSE NoFork

isObviousOfTwo(via, road, other) ==
  LET from == Edge(via).cls to == Edge(road.eid).cls compare == Edge(other.eid).cls
      narrower == IF Deviation(road) = 0 THEN Deviation(other) > 0
                  ELSE 5 * Deviation(other) > 7 * Deviation(road)
  IN \/ obviousByRoadClass(from, to, compare)
     \/ /\ ~obviousByRoadClass(from, compare, to)
        /\ \/ /\ ~Unnamed(Edge(via).sign) /\ road.angle = STRAIGHT_ANGLE
              /\ ~Announced(via, road.eid)
           \/ narrower /\ Deviation(other) - Deviation(road) > FUZZY_ANGLE_DIFFERENCE

hasObvious(via, I, fork) ==
  \E k \in fork.right..(fork.left - 1) :
    isObviousOfTwo(via, I[k], I[k + 1]) \/ isObviousOfTwo(via, I[k + 1], I[k])

isCompatibleByRoadClass(I, fork) ==
  LET cls(k) == Edge(I[k].eid).cls
      branches == fork.right..fork.left
  IN /\ \A k \in branches : cls(k).link = cls(fork.right).link
     /\ \A base, compare \in branches :
          base # compare => ~obviousByRoadClass(cls(0), cls(base), cls(compare))

ForkOrNone(via, I, fork) ==
  LET next == IF fork.left = Size(I) - 1 THEN 0 ELSE fork.left + 1
  IN IF /\ fork # NoFork
        /\ angularDeviation(I[fork.left].angle, I[next].angle) >= GROUP_ANGLE
        /\ angularDeviation(I[fork.right].angle, I[fork.right - 1].angle) >= GROUP_ANGLE
        /\ ~hasObvious(via, I, fork)
        /\ isCompatibleByRoadClass(I, fork)
        /\ \A k \in fork.right..fork.left : I[k].entry /\ Edge(I[k].eid).mode = Edge(via).mode
     THEN fork ELSE NoFork
findFork(via, I) == ForkOrNone(via, I, findForkCandidatesByGeometry(I))

-----------------------------------------------------------------------------
(* Turns to one side.                                                      *)
\* Two roads that would get the same direction.  The last case is meant for
\* right turns only; its condition compares a direction with 180 and always holds.
ConflictModifiers(left, right) ==
  LET near(road, angle) == angularDeviation(road.angle, angle) < MAXIMAL_ALLOWED_NO_TURN_DEVIATION
      direction(road) == getTurnDirection(road.angle)
  IN IF near(left, 90) THEN <<"Right", "SharpRight">>
     ELSE IF near(right, 90) THEN <<"SlightRight", "Right">>
     ELSE IF near(left, 270) THEN <<"Left", "SlightLeft">>
     ELSE IF near(right, 270) \/ direction(left) = "SharpLeft" THEN <<"SharpLeft", "Left">>
     ELSE IF direction(right) = "SharpRight" THEN <<"Right", "SharpRight">>
     ELSE IF angularDeviation(left.angle, 85) >= angularDeviation(right.angle, 85)
     THEN <<"SlightRight", "Right">>
     ELSE <<"Right", "SharpRight">>

handleDistinctConflict(via, I, l, r) ==
  LET left == I[l] right == I[r]
      obvious == IF Edge(left.eid).cls.prio > Edge(right.eid).cls.prio THEN r ELSE l
      type(road) == findBasicTurnType(via, road)
      modifiers == ConflictModifiers(left, right)
  IN IF ~left.entry \/ ~right.entry \/ left.angle = right.angle
     THEN [k \in DOMAIN I |-> IF k \in {l, r} /\ I[k].entry THEN WithTurn(via, I[k]) ELSE I[k]]
     ELSE IF getTurnDirection(left.angle) \in {"Straight", "SlightLeft"}
             \/ getTurnDirection(right.angle) = "SlightRight"
     THEN [I EXCEPT ![obvious] = getInstructionForObvious(4, via, FALSE, @),
                    ![l + r - obvious] = Instruct(@, type(@), IF obvious = r THEN "SlightLeft" ELSE "SlightRight")]
     ELSE [I EXCEPT ![l] = Instruct(@, type(@), modifiers[1]),
                    ![r] = Instruct(@, type(@), modifiers[2])]

\* Three roads to one side.
AssignThreeRightTurns(via, I) ==
  LET d == [k \in 1..3 |-> getTurnDirection(I[k].angle)]
      gap(k) == angularDeviation(I[k].angle, I[k + 1].angle)
      closed == \E k \in 1..3 : ~I[k].entry
      apart == IF gap(2) >= GROUP_ANGLE THEN 3 ELSE 1
      pair == IF closed THEN <<IF ~I[3].entry THEN 2 ELSE 3, IF I[3].entry /\ ~I[1].entry THEN 2 ELSE 1>>
              ELSE IF apart = 3 THEN <<2, 1>> ELSE <<3, 2>>
      modifiers == <<"SharpRight", "Right", "SlightRight">>
  IN IF ~closed /\ gap(1) >= NARROW_TURN_ANGLE /\ gap(2) >= NARROW_TURN_ANGLE /\ ~(d[1] # d[2] /\ d[2] # d[3])
     THEN [k \in DOMAIN I |-> IF k \in 1..3 THEN Instruct(I[k], findBasicTurnType(via, I[k]), modifiers[k]) ELSE I[k]]
     ELSE IF \/ d[1] # d[2] /\ d[2] # d[3]
             \/ /\ ~closed
                /\ \/ d[1] = d[2] /\ d[2] = d[3]
                   \/ d[1] = d[2] /\ gap(2) < GROUP_ANGLE
                   \/ d[2] = d[3] /\ gap(1) < GROUP_ANGLE
     THEN assignTrivialTurns(via, I, 1, 4)
     ELSE [handleDistinctConflict(via, I, pair[1], pair[2])
             EXCEPT ![apart] = IF closed THEN @ ELSE WithTurn(via, @)]

assignRightTurns(via, I, up_to) ==
  IF up_to <= 1 \/ \A k \in 1..(up_to - 1) : ~I[k].entry THEN I
  ELSE IF up_to = 3 /\ getTurnDirection(I[1].angle) = getTurnDirection(I[2].angle)
  THEN handleDistinctConflict(via, I, 2, 1)
  ELSE IF up_to = 4 THEN AssignThreeRightTurns(via, I)
  ELSE assignTrivialTurns(via, I, 1, up_to)

\* Left turns are right turns in a mirror.
assignLeftTurns(via, I, starting_at) ==
  SwitchLeftAndRight(assignRightTurns(via, SwitchLeftAndRight(I), Size(I) - starting_at))

-----------------------------------------------------------------------------
(* Intersections by size.                                                  *)
isEndOfRoad(right, left) ==
  /\ angularDeviation(right.angle, 90) < NARROW_TURN_ANGLE
  /\ angularDeviation(left.angle, 270) < NARROW_TURN_ANGLE
  /\ angularDeviation(right.angle, left.angle) > 2 * NARROW_TURN_ANGLE

handleTwoWayTurn(via, I) == [I EXCEPT ![1] = getInstructionForObvious(2, via, FALSE, @)]

\* The other road beside an obvious one.
BesideObvious(via, road, both_straight, modifier) ==
  Instruct(road, findBasicTurnType(via, road),
           IF both_straight THEN modifier ELSE getTurnDirection(road.angle))

AssignThreeWayTurn(via, I, obvious, fork) ==
  LET all_links == \A k \in DOMAIN I : Edge(I[k].eid).cls.link
      end(road, modifier) ==
        IF ~road.entry THEN road
        ELSE Instruct(road, IF findBasicTurnType(via, road) = "OnRamp" THEN "OnRamp" ELSE "EndOfRoad",
                      modifier)
      both_straight == \A k \in 1..2 : getTurnDirection(I[k].angle) = "Straight"
      obvious_road == getInstructionForObvious(3, via, isThroughStreet(obvious, I), I[obvious])
  IN IF fork # NoFork /\ (all_links \/ obvious = 0) THEN assignFork2(via, I, fork.left, fork.right)
     ELSE IF isEndOfRoad(I[1], I[2]) /\ obvious = 0
     THEN [I EXCEPT ![1] = end(@, "Right"), ![2] = end(@, "Left")]
     ELSE IF obvious = 1
     THEN [I EXCEPT ![1] = obvious_road, ![2] = BesideObvious(via, @, both_straight, "SlightLeft")]
     ELSE IF obvious = 2
     THEN [I EXCEPT ![2] = obvious_road, ![1] = BesideObvious(via, @, both_straight, "SlightRight")]
     ELSE [I EXCEPT ![1] = WithTurn(via, @), ![2] = WithTurn(via, @)]
handleThreeWayTurn(via, I) == AssignThreeWayTurn(via, I, findObviousTurn(via, I), findFork(via, I))

AssignBothSides(via, I, left, right) ==
  assignRightTurns(via, assignLeftTurns(via, I, left), right)

\* The roads of a fork among four or more roads.
AssignComplexFork(via, I, fork) ==
  LET cls(k) == Edge(I[k].eid).cls
      obvious(road) == getInstructionForObvious(Size(I), via, FALSE, road)
      turn(road, modifier) == Instruct(road, findBasicTurnType(via, road), modifier)
  IN IF fork.left - fork.right = 2 THEN assignFork3(via, I, fork.left, fork.left - 1, fork.right)
     ELSE IF canBeSeenAsFork(cls(fork.left), cls(fork.right))
     THEN assignFork2(via, I, fork.left, fork.right)
     ELSE IF cls(fork.left).prio > cls(fork.right).prio
     THEN [I EXCEPT ![fork.right] = obvious(@), ![fork.left] = turn(@, "SlightLeft")]
     ELSE [I EXCEPT ![fork.left] = obvious(@), ![fork.right] = turn(@, "SlightRight")]

\* Without an obvious turn and a fork the sides are divided by the straightmost road.
SidesOfStraightmost(I, straightmost) ==
  LET road == I[straightmost]
  IN IF Deviation(road) < FUZZY_ANGLE_DIFFERENCE /\ ~road.entry THEN <<straightmost, straightmost>>
     ELSE IF road.angle > STRAIGHT_ANGLE THEN <<straightmost - 1, straightmost>>
     ELSE IF road.angle < STRAIGHT_ANGLE THEN <<straightmost, straightmost + 1>>
     ELSE <<>>
AssignSides(via, I, sides) ==
  IF sides = <<>> THEN assignTrivialTurns(via, I, 1, Size(I)) ELSE AssignBothSides(via, I, sides[1], sides[2])
AssignComplexTurn(via, I, obvious, fork) ==
  AssignSides(via,
    IF obvious # 0
    THEN [I EXCEPT ![obvious] = getInstructionForObvious(Size(I), via, isThroughStreet(obvious, I), @)]
    ELSE IF fork # NoFork THEN AssignComplexFork(via, I, fork) ELSE I,
    IF obvious # 0 THEN <<obvious, obvious>>
    ELSE IF fork # NoFork THEN <<fork.left, fork.right>>
    ELSE SidesOfStraightmost(I, findClosestTurn(I, STRAIGHT_ANGLE)))
handleComplexTurn(via, I) == AssignComplexTurn(via, I, findObviousTurn(via, I), findFork(via, I))

TurnHandlerAssign(via, I) ==
  LET uturn == IF I[0].entry THEN Instruct(I[0], findBasicTurnType(via, I[0]), "UTurn") ELSE I[0]
      from == [I EXCEPT ![0] = uturn]
  IN CASE Size(I) = 1 -> I
       [] Size(I) = 2 -> handleTwoWayTurn(via, from)
       [] Size(I) = 3 -> handleThreeWayTurn(via, from)
       [] OTHER -> handleComplexTurn(via, from)

-----------------------------------------------------------------------------
(* Instructions where all roads are motorways and their ramps              *)
(* (guidance/motorway_handler.cpp).                                        *)

isMotorwayClass(eid) == IsMotorwayClass(Edge(eid).cls)
isRampClass(eid, from_motorway) == IsRampClass(Edge(eid).cls) \/ (from_motorway /\ Edge(eid).cls.link)

MotorwayCanProcess(via, I) ==
  /\ \A k \in DOMAIN I : /\ ~(I[k].entry /\ Deviation(I[k]) > 60)
                         /\ isMotorwayClass(I[k].eid) \/ isRampClass(I[k].eid, isMotorwayClass(via))
  /\ isMotorwayClass(via) \/ \E k \in DOMAIN I : I[k].entry /\ isMotorwayClass(I[k].eid)

MotorwayFallback(I) ==
  [k \in DOMAIN I |->
     LET road == I[k]
     IN IF ~road.entry THEN road
        ELSE IF isMotorwayClass(road.eid)
        THEN Instruct(road, "Merge", IF road.angle < STRAIGHT_ANGLE THEN "SlightLeft" ELSE "SlightRight")
        ELSE Instruct(road, "Turn", IF Deviation(road) < FUZZY_ANGLE_DIFFERENCE THEN "Straight"
                                    ELSE IF road.angle > STRAIGHT_ANGLE THEN "SlightLeft" ELSE "SlightRight")]

-----------------------------------------------------------------------------
\* Where the motorway goes on: under its name, or most straight; 0 when it ends.
ContinueAngle(via, I) ==
  LET named == {k \in DOMAIN I : /\ I[k].entry /\ I[k].angle # 0
                                 /\ ~EmptyId(Edge(via).sign) /\ ~EmptyId(Edge(I[k].eid).sign)
                                 /\ ~Announced(via, I[k].eid) /\ isMotorwayClass(I[k].eid)}
      likely == {k \in DOMAIN I : isMotorwayClass(I[k].eid) /\ Deviation(I[k]) < 180}
  IN IF named # {} THEN I[Min(named)].angle
     ELSE IF likely # {} THEN I[ClosestAmong(I, likely, STRAIGHT_ANGLE)].angle
     ELSE 0

\* The motorway ends.
EndOfMotorway(via, I) ==
  LET quiet(k) == [I EXCEPT ![k] = Instruct(@, "NoTurn", getTurnDirection(@.angle))]
      cls(k) == Edge(I[k].eid).cls
  IN CASE Size(I) = 2 -> quiet(1)
       [] Size(I) = 3 -> IF I[1].entry /\ I[2].entry THEN assignFork2(via, I, 2, 1)
                         ELSE IF I[1].entry THEN quiet(1) ELSE quiet(2)
       [] Size(I) = 4 /\ cls(1) = cls(2) /\ cls(2) = cls(3) -> assignFork3(via, I, 3, 2, 1)
       [] OTHER -> MotorwayFallback(I)

\* The motorway passes exits.  Every road that continues is held against the
\* first one for a street that goes through.
PassingExits(via, I, continue_angle) ==
  LET exit(road, modifier) ==
        Instruct(road, IF isRampClass(road.eid, TRUE) THEN "OffRamp" ELSE "Turn", modifier)
      of(road) ==
        IF ~road.entry THEN road
        ELSE IF road.angle = continue_angle
        THEN getInstructionForObvious(Size(I), via, isThroughStreet(1, I), road)
        ELSE IF road.angle < continue_angle
        THEN exit(road, IF road.angle < 145 THEN "Right" ELSE "SlightRight")
        ELSE exit(road, IF road.angle > 215 THEN "Left" ELSE "SlightLeft")
  IN IF Size(I) = 2
     THEN [I EXCEPT ![1] = getInstructionForObvious(2, via, isThroughStreet(1, I), @)]
     ELSE [k \in DOMAIN I |-> of(I[k])]

\* Only motorways go on: a fork.
MotorwayFork(via, I, motorways) ==
  LET m == InOrder(motorways)
  IN CASE Cardinality(motorways) = 2 -> assignFork2(via, I, m[2], m[1])
       [] Cardinality(motorways) = 3 -> assignFork3(via, I, m[3], m[2], m[1])
       [] OTHER -> MotorwayFallback(I)

fromMotorway(via, I) ==
  LET continue_angle == ContinueAngle(via, I)
      exits == {k \in DOMAIN I : I[k].entry}
      motorways == {k \in exits : isMotorwayClass(I[k].eid)}
  IN IF continue_angle = 0 THEN EndOfMotorway(via, I)
     ELSE IF motorways = {}
     THEN [k \in DOMAIN I |-> IF k \in exits THEN Instruct(I[k], "Suppressed", getTurnDirection(I[k].angle))
                              ELSE I[k]]
     ELSE IF Cardinality(motorways) = 1 \/ motorways # exits THEN PassingExits(via, I, continue_angle)
     ELSE MotorwayFork(via, I, motorways)

-----------------------------------------------------------------------------
\* A ramp meets two roads of which one may be entered.
MergeFromRamp(via, I, k, modifier) ==
  LET same_name == /\ ~Unnamed(Edge(I[1].eid).sign) /\ ~Unnamed(Edge(I[2].eid).sign)
                   /\ ~Announced(I[2].eid, I[1].eid)
  IN [I EXCEPT ![k] = IF isMotorwayClass(@.eid) /\ same_name
                      THEN Instruct(@, "Merge", IF Deviation(@) < 2 * NARROW_TURN_ANGLE THEN modifier
                                                ELSE getTurnDirection(@.angle))
                      ELSE getInstructionForObvious(3, via, isThroughStreet(k, I), @)]

\* On and off ramps at a motorway, seen in order from the right.
RampOntoMotorway(I) ==
  [k \in DOMAIN I |->
     LET road == I[k]
         passed == \E j \in 0..(k - 1) : ~I[j].entry /\ isMotorwayClass(I[j].eid)
     IN IF ~isMotorwayClass(road.eid) THEN Instruct(road, "OffRamp", getTurnDirection(road.angle))
        ELSE IF ~road.entry THEN road
        ELSE Instruct(road, "Merge", IF passed THEN "SlightRight" ELSE "SlightLeft")]

fromRamp(via, I) ==
  CASE Size(I) = 2 /\ countEnterable(I) = 1 ->
         [I EXCEPT ![1] = getInstructionForObvious(2, via, isThroughStreet(1, I), @)]
    [] Size(I) = 3 /\ countEnterable(I) = 1 ->
         IF I[1].entry THEN MergeFromRamp(via, I, 1, "SlightLeft")
         ELSE MergeFromRamp(via, I, 2, "SlightRight")
    [] Size(I) = 3 /\ countEnterable(I) # 1 ->
         IF isMotorwayClass(I[1].eid) /\ ~isMotorwayClass(I[2].eid)
         THEN [I EXCEPT ![1] = Instruct(@, "Turn", "SlightRight"), ![2] = Instruct(@, "Continue", "SlightLeft")]
         ELSE assignFork2(via, I, 2, 1)
    [] Size(I) = 4 -> RampOntoMotorway(I)
    [] OTHER -> MotorwayFallback(I)

MotorwayAssign(via, I) ==
  LET from == fromMotorway(via, I)
  IN IF ~isMotorwayClass(via) THEN fromRamp(via, I)
     ELSE [k \in DOMAIN from |-> [from[k] EXCEPT !.type = IF @ = "OnRamp" THEN "OffRamp" ELSE @]]

-----------------------------------------------------------------------------
(* Instructions at and on roundabouts (guidance/roundabout_handler.cpp).   *)

OnCircle(eid) == Edge(eid).roundabout \/ Edge(eid).circular
DrivesLeft(via) == Edge(via).left_hand

\* The roads met before a road, itself included.
UpTo(via, I, k) == {j \in DOMAIN I : IF DrivesLeft(via) THEN j >= k ELSE j <= k}

getRoundaboutFlags(from, via, I) ==
  LET open == {k \in DOMAIN I : ~Edge(I[k].eid).reversed /\ I[k].entry}
      circle == {k \in open : OnCircle(I[k].eid)}
  IN [on_roundabout |-> OnCircle(via),
      can_enter |-> circle # {},
      can_exit_separately |->
        \E k \in open \ circle : Target(I[k].eid) # from /\ circle \cap UpTo(via, I, k) = {}]

-----------------------------------------------------------------------------
(* What kind of roundabout a node is part of.                              *)
\* Bearings, in order, that differ by more than a narrow turn, the last from
\* the first too; the difference is not taken across north.
WellDistinct(bearings) ==
  \A i \in DOMAIN bearings :
    LET difference == bearings[(i % Len(bearings)) + 1] - bearings[i]
    IN difference > NARROW_TURN_ANGLE \/ -difference > NARROW_TURN_ANGLE

qualifiesAsRoundaboutIntersection(nodes) ==
  LET exits(node) == {e \in Out(node) : ~OnCircle(e)}
      leaving == {Min(exits(node)) : node \in {n \in nodes : exits(n) # {}}}
      by_bearing(a, b) == Edge(a).perceived < Edge(b).perceived \/ (Edge(a).perceived = Edge(b).perceived /\ a < b)
      sorted == Ordered(leaving, by_bearing)
  IN /\ Cardinality(nodes) <= 4
     /\ \A node \in nodes : OutDegree(node) <= 3
     /\ WellDistinct([i \in DOMAIN sorted |-> Edge(sorted[i]).perceived])

StepOnRoundabout(w, roundabout, circular) ==
  LET next == {e \in Out(w.node) : /\ ~Edge(e).reversed
                                   /\ Edge(e).circular = circular /\ Edge(e).roundabout = roundabout}
      eid == CHOOSE e \in next : TRUE
      sign == Edge(eid).sign
      named == ~Unnamed(sign) /\ \A s \in w.names : requiresNameAnnounced(s, sign, Affixes)
  IN IF Cardinality({e \in Out(w.node) : OnCircle(e)}) # 2 \/ Cardinality(next) # 1
     THEN [w EXCEPT !.state = "invalid"]
     ELSE [node |-> Target(eid),
           nodes |-> IF OutDegree(w.node) > 2 THEN w.nodes \cup {w.node} ELSE w.nodes,
           length |-> w.length + Edge(eid).length,
           names |-> IF named THEN w.names \cup {sign} ELSE w.names,
           connected |-> w.connected \cup {Edge(e).sign : e \in {f \in Out(w.node) : ~OnCircle(f)}},
           state |-> "walking"]

ClosedAt(nid, w) ==
  IF w.state = "walking" /\ (w.node = nid \/ w.node \in w.nodes) THEN [w EXCEPT !.state = "closed"] ELSE w
WalkRoundabout(nid, roundabout, circular) ==
  LET start == [node |-> nid, nodes |-> {}, length |-> 0, names |-> {}, connected |-> {}, state |-> "walking"]
      around(w, i) ==
        IF w.state # "walking" THEN w
        ELSE ClosedAt(nid, StepOnRoundabout(w, roundabout, circular))
  IN InTurn(around, start, [i \in DOMAIN job.edges |-> i])

MAX_ROUNDABOUT_RADIUS == 15
RadiusAbove(length) == length * 1000 > MAX_ROUNDABOUT_RADIUS * 6283
RadiusBelow(length) == length * 1000 < MAX_ROUNDABOUT_RADIUS * 6283

TypeOfWalk(w, roundabout, circular) ==
  LET rotary == /\ Cardinality(w.names) = 1
                /\ circular \/ (w.names \cap w.connected = {} /\ RadiusAbove(w.length))
  IN IF roundabout = circular \/ w.state # "closed" \/ w.nodes = {} THEN "None"
     ELSE IF Cardinality(w.nodes) = 1 /\ roundabout THEN "RoundaboutIntersection"
     ELSE IF rotary THEN "Rotary"
     ELSE IF circular THEN "None"
     ELSE IF qualifiesAsRoundaboutIntersection(w.nodes) /\ RadiusBelow(w.length)
     THEN "RoundaboutIntersection" ELSE "Roundabout"
getRoundaboutType(nid) ==
  LET roundabout == \E e \in Out(nid) : Edge(e).roundabout
      circular == \E e \in Out(nid) : Edge(e).circular
  IN TypeOfWalk(WalkRoundabout(nid, roundabout, circular), roundabout, circular)

RoundaboutCanProcess(from, via, I) ==
  LET flags == getRoundaboutFlags(from, via, I)
  IN (flags.on_roundabout \/ flags.can_enter) /\ getRoundaboutType(Target(via)) # "None"

-----------------------------------------------------------------------------
EnterType(type) ==
  CASE type = "Roundabout" -> "EnterRoundabout" [] type = "Rotary" -> "EnterRotary"
    [] OTHER -> "EnterRoundaboutIntersection"
EnterAtExitType(type) ==
  CASE type = "Roundabout" -> "EnterRoundaboutAtExit" [] type = "Rotary" -> "EnterRotaryAtExit"
    [] OTHER -> "EnterRoundaboutIntersectionAtExit"
EnterAndExitType(type) ==
  CASE type = "Roundabout" -> "EnterAndExitRoundabout" [] type = "Rotary" -> "EnterAndExitRotary"
    [] OTHER -> "EnterAndExitRoundaboutIntersection"
ExitType(type) ==
  CASE type = "Roundabout" -> "ExitRoundabout" [] type = "Rotary" -> "ExitRotary"
    [] OTHER -> "ExitRoundaboutIntersection"

\* On the roundabout: a road is part of it or an exit.
OnRoundaboutInstruction(type, via, I, road) ==
  LET center == Target(via)
      direction == getTurnDirection(road.angle)
      non_ignorable_exit == \E e \in Out(center) : ~Edge(e).reversed /\ ~OnCircle(e) /\ ~Edge(e).cls.low
  IN IF ~OnCircle(road.eid) THEN Instruct(road, ExitType(type), direction)
     ELSE IF DirectedOutDegree(center) = 1
     THEN IF Size(I) = 2 THEN Instruct(road, "NoTurn", "UTurn") ELSE Instruct(road, "Suppressed", direction)
     ELSE Instruct(road, IF Edge(road.eid).cls.low \/ non_ignorable_exit
                         THEN "StayOnRoundabout" ELSE "Suppressed", direction)

\* Into the roundabout, or across it: an odd number of its roads lies before.
IntoRoundaboutInstruction(type, via, I, k, at_exit) ==
  LET road == I[k]
      direction == getTurnDirection(road.angle)
      crossing == Cardinality({j \in UpTo(via, I, k) : OnCircle(I[j].eid)}) % 2 = 1
  IN IF ~road.entry THEN road
     ELSE IF OnCircle(road.eid)
     THEN Instruct(road, IF at_exit THEN EnterAtExitType(type) ELSE EnterType(type), direction)
     ELSE IF Deviation(road) < FUZZY_ANGLE_DIFFERENCE /\ crossing
     THEN getInstructionForObvious(Size(I), via, isThroughStreet(k, I), road)
     ELSE Instruct(road, EnterAndExitType(type), direction)

handleRoundabouts(type, via, on_roundabout, can_exit_separately, I) ==
  [k \in DOMAIN I |-> IF on_roundabout THEN OnRoundaboutInstruction(type, via, I, I[k])
                      ELSE IntoRoundaboutInstruction(type, via, I, k, can_exit_separately)]

RoundaboutAssign(from, via, I) ==
  LET flags == getRoundaboutFlags(from, via, I)
  IN handleRoundabouts(getRoundaboutType(Target(via)), via, flags.on_roundabout,
                       flags.can_exit_separately, I)

-----------------------------------------------------------------------------
(* Sliproads: a road bd that cuts the corner of the intersection c to which *)
(* the main road bc leads (guidance/sliproad_handler.cpp).                  *)
(*                                                                          *)
(* The curve of an edge is the set of the sides, "ccw" or "cw", of the line *)
(* from the start of the sliproad to its end on which its places lie.       *)
MAX_SLIPROAD_THRESHOLD == 250

scaledThresholdByRoadClass(cls) ==
  CASE cls.prio = 0 -> MAX_SLIPROAD_THRESHOLD
    [] cls.prio \in {2, 4} -> 200
    [] cls.prio = 6 -> 150
    [] cls.prio = 8 -> 125
    [] cls.prio = 10 -> 100
    [] cls.prio \in {1, 3, 5, 7, 9, 11, 14} -> 75
    [] OTHER -> 25

\* The next intersection beyond signals and barriers, if it is one.
IntersectionAt(edge, view) == [found |-> Size(view) > 2, view |-> view, node |-> Target(edge)]
NextIntersectionOver(edge) == IntersectionAt(edge, getConnectedRoads(edge, FALSE))
getNextIntersection(at, via) == NextIntersectionOver(skipDegreeTwoNodes(at, via).edge)

\* The length is compared only before the walk goes on, so that a road which
\* leads straight to an intersection is never too long.
nextIntersectionIsTooFarAway(start, onto) ==
  TraverseRoad(start, onto, 0, SkipTrafficSignalBarrierRoadSelector,
               LAMBDA w : w.length > scaledThresholdByRoadClass(Edge(onto).cls)).state = "arrived"

canBeTargetOfSliproad(I) == Size(I) = 3 /\ ~I[0].entry /\ ~(I[1].entry /\ I[2].entry)

ObviousOfFork(at, first, second) ==
  IF ~first.found \/ ~second.found \/ isDeadEnd(first.view) \/ isDeadEnd(second.view) THEN Nowhere
  ELSE IF canBeTargetOfSliproad(first.view) /\ at # second.node THEN 2
  ELSE IF canBeTargetOfSliproad(second.view) /\ at # first.node THEN 1
  ELSE Nowhere
ObviousUnlessFork(at, I, index) ==
  IF index # 0 THEN index
  ELSE IF Size(I) # 3 \/ I[1].type # "Fork" \/ I[2].type # "Fork" THEN Nowhere
  ELSE ObviousOfFork(at, getNextIntersection(at, I[RightmostRoad(I)].eid),
                     getNextIntersection(at, I[LeftmostRoad(I)].eid))
getObviousIndexWithSliproads(via, I) == ObviousUnlessFork(Target(via), I, findObviousTurn(via, I))

roadContinues(current, next) ==
  /\ Edge(current).cls = Edge(next).cls /\ Edge(current).mode = Edge(next).mode
  /\ ~EmptyId(Edge(current).sign) /\ ~EmptyId(Edge(next).sign) /\ ~Announced(current, next)

IsPotentialLink(main, road) ==
  /\ road.entry /\ ~hasRoundaboutType(road.type)
  /\ Deviation(road) <= 2 * NARROW_TURN_ANGLE /\ road.angle # main.angle
  /\ ~Edge(road.eid).roundabout

allSameMode(from, sliproad, target) ==
  Edge(from).mode = Edge(sliproad).mode /\ Edge(target).mode = Edge(sliproad).mode

isValidSliproadArea(max_area, a, b, c) ==
  LET twice == Distance(a, b) * Distance(b, c)
  IN twice >= 6 /\ twice <= 2 * max_area

isValidSliproadLink(sliproad, second) == Edge(sliproad).cls.link => ~Edge(second).cls.link

IsSharp(angle) == getTurnDirection(angle) \in {"SharpRight", "SharpLeft"}

-----------------------------------------------------------------------------
(* The conditions on a sliproad.  s has the edge it is entered by, the edge *)
(* on which it arrives at d, the view there, the side of the main road, the *)
(* main road and the intersection c it leads to.                            *)
CrossingRoad(s) == s.c.view[IF s.left THEN LeftmostRoad(s.c.view) ELSE RightmostRoad(s.c.view)]

\* Four roads at d: the road after the crossing one leads to a common node
\* with a sharp turn.
FourRoadTarget(s) ==
  LET beside == s.c.view[IF s.left THEN Size(s.c.view) - 2 ELSE 2]
  IN /\ Target(s.edge) = Target(CrossingRoad(s).eid)
     /\ \E k \in DOMAIN s.view : Target(s.view[k].eid) = Target(beside.eid) /\ IsSharp(s.view[k].angle)

ArrivesOnThroughStreet(s) ==
  LET own == {k \in DOMAIN s.view : s.view[k].eid = s.edge}
  IN own # {} /\ isThroughStreet(Min(own), s.view)

NarrowTurnOff(s, index) ==
  index # 0 /\ Deviation(s.view[index]) <= 2 * NARROW_TURN_ANGLE /\ ~Edge(s.view[index].eid).roundabout
ObviousAndNarrowTurnOff(s) == NarrowTurnOff(s, findObviousTurn(s.edge, s.view))

MinimalCrossroadAngle == 40
Snuggles(s, b) ==
  \/ Distance(b, s.c.node) < 3
  \/ /\ (IF s.left THEN "cw" ELSE "ccw") \notin Edge(s.edge).curve
     /\ Deviation(CrossingRoad(s)) <= 180 - MinimalCrossroadAngle \/ Edge(s.entered).cls.link

\* A road at d that a road at c continues and that comes from c, from a node
\* next to it or from c over a traffic light.
AnnouncedTwice(s, candidate) ==
  /\ ~Edge(s.entered).cls.link
  /\ \A e \in {s.entered, s.main, candidate} : ~Unnamed(Edge(e).sign)
  /\ Announced(s.main, s.entered) /\ Announced(s.entered, candidate)

OverSignalTo(node, beyond) == isTrafficSignalOrBarrier(beyond) /\ Target(beyond[1].eid) = node
ConnectsTo(s, road) ==
  LET crossing == CrossingRoad(s)
  IN \/ Target(road.eid) = s.c.node
     \/ /\ Target(road.eid) = Target(crossing.eid)
        /\ angleBetween(road.perceived, crossing.perceived) < FUZZY_ANGLE_DIFFERENCE
        /\ IsSharp(road.angle)
     \/ OverSignalTo(s.c.node, getConnectedRoads(road.eid, FALSE))

IsSliproad(via, s) ==
  LET b == Target(via)
      d == Target(s.edge)
      valid == Min({k \in DOMAIN s.view : s.view[k].entry})
      threshold == scaledThresholdByRoadClass(Edge(s.entered).cls)
  IN /\ ~isDeadEnd(s.view)
     /\ allSameMode(via, s.entered, s.view[valid].eid)
     /\ Size(s.view) \in {3, 4}
     /\ b # s.c.node /\ b # d /\ s.c.node # d
     /\ Size(s.view) = 4 => FourRoadTarget(s)
     /\ ~ArrivesOnThroughStreet(s)
     /\ ObviousAndNarrowTurnOff(s)
     /\ Snuggles(s, b)
     /\ isValidSliproadArea(threshold * threshold, b, s.c.node, d)
     /\ \E k \in DOMAIN s.view :
          LET road == s.view[k]
          IN /\ \E j \in DOMAIN s.c.view : ~Announced(s.c.view[j].eid, road.eid)
             /\ ~AnnouncedTwice(s, road.eid)
             /\ isValidSliproadLink(s.entered, road.eid)
             /\ ConnectsTo(s, road)

\* The sliproad candidate k beside the main road.
CandidateOver(w, I, obvious, c, k) ==
  [entered |-> I[k].eid, edge |-> w.edge, view |-> w.view, left |-> k > obvious, main |-> I[obvious].eid, c |-> c]
Candidate(via, I, obvious, c, k) ==
  CandidateOver(TraverseRoad(Target(via), I[k].eid, 0, SkipTrafficSignalBarrierRoadSelector,
                             LAMBDA v : AtIntersection(v, 10)), I, obvious, c, k)

\* The main road of a fork is obvious once the other one is a sliproad.
WithoutFork(via, road) ==
  LET direction == getTurnDirection(road.angle)
  IN IF isSameName(via, road.eid)
     THEN Instruct(road, IF Deviation(road) < 5 THEN "Suppressed" ELSE "Continue", direction)
     ELSE IF ~Unnamed(Edge(road.eid).sign) THEN Instruct(road, "NewName", direction)
     ELSE Instruct(road, "Suppressed", road.modifier)

IsSliproadBeside(via, I, main, k, s) ==
  /\ ~Edge(CrossingRoad(s).eid).reversed
  /\ ~Edge(I[k].eid).cls.low /\ ~Edge(I[k].eid).reversed
  /\ IsPotentialLink(main, I[k])
  /\ IsSliproad(via, s)
MarkSliproads(via, I, obvious, beside) ==
  [k \in DOMAIN I |-> IF k \in beside THEN Instruct(I[k], "Sliproad", I[k].modifier)
                      ELSE IF k = obvious /\ beside # {} /\ I[k].type = "Fork" THEN WithoutFork(via, I[k])
                      ELSE I[k]]
SliproadsToward(via, I, obvious, c) ==
  IF ~c.found \/ isDeadEnd(c.view) \/ c.node = Target(via) THEN I
  ELSE MarkSliproads(via, I, obvious,
                     {k \in {obvious - 1, (obvious + 1) % Size(I)} \ {0} :
                        IsSliproadBeside(via, I, I[obvious], k, Candidate(via, I, obvious, c, k))})
SliproadsBeside(via, I, obvious) ==
  IF \/ obvious = Nowhere
     \/ ~roadContinues(via, I[obvious].eid)
     \/ \A k \in DOMAIN I : ~IsPotentialLink(I[obvious], I[k])
     \/ nextIntersectionIsTooFarAway(Target(via), I[obvious].eid)
  THEN I
  ELSE SliproadsToward(via, I, obvious, getNextIntersection(Target(via), I[obvious].eid))
SliproadAssign(via, I) == SliproadsBeside(via, I, getObviousIndexWithSliproads(via, I))

-----------------------------------------------------------------------------
(* The instructions of the turns from one road into an intersection         *)
(* (guidance/turn_analysis.cpp as guidance_processing.cpp runs it, with     *)
(* driveway_handler.cpp and suppress_mode_handler.cpp).                     *)
(*                                                                          *)
(* A job has a road network and the edge via over which the intersection is  *)
(* reached; I is the intersection with its instructions, handler the one     *)
(* that set them, turns the data stored for the turns that are allowed.      *)

CONSTANTS Layouts,           \* descriptions of networks, each with a way in
          NetworkOf(_),      \* what a layout describes
          None

Prior == Edge(job.via).source

-----------------------------------------------------------------------------
(* Handlers.                                                                *)
setTurnTypes(via, I) ==
  [k \in DOMAIN I |->
     IF ~I[k].entry THEN I[k]
     ELSE IF Target(I[k].eid) = Edge(via).source THEN Instruct(I[k], "Continue", "UTurn")
     ELSE Instruct(I[k], "Turn", getTurnDirection(I[k].angle))]

SuppressModeCanProcess(via, I) ==
  /\ Edge(via).mode \in {"train", "ferry"}
  /\ \A k \in DOMAIN I : Edge(I[k].eid).mode = Edge(via).mode
SuppressModeAssign(I) == [k \in DOMAIN I |-> [I[k] EXCEPT !.type = "NoTurn"]]

DrivewayCanProcess(I) ==
  LET low == {k \in DOMAIN I : Edge(I[k].eid).cls.low}
  IN Size(I) > 2 /\ 0 \notin low /\ Cardinality(low) + 2 = Size(I)

DrivewayAssign(via, I) ==
  LET main == Min({k \in DOMAIN I \ {0} : ~Edge(I[k].eid).cls.low})
      beside(k, modifier) == IF I[k].modifier = "Straight" THEN [I[k] EXCEPT !.modifier = modifier] ELSE I[k]
  IN IF I[main].type = "Invalid" THEN I
     ELSE [k \in DOMAIN I |->
             IF k = main
             THEN [I[k] EXCEPT !.type = IF isSameName(via, I[k].eid) THEN "NoTurn" ELSE "NewName"]
             ELSE IF I[main].modifier # "Straight" \/ k = 0 THEN I[k]
             ELSE beside(k, IF k < main THEN "SlightRight" ELSE "SlightLeft")]

\* An on-ramp taken from a motorway is an off-ramp.
RampsOffMotorway(via, I) ==
  IF ~IsMotorwayClass(Edge(via).cls) THEN I
  ELSE [k \in DOMAIN I |-> IF I[k].type = "OnRamp" THEN [I[k] EXCEPT !.type = "OffRamp"] ELSE I[k]]

-----------------------------------------------------------------------------
Init ==
  \E layout \in Layouts :
    LET x == Value(NetworkOf(layout))
    IN job = [service |-> "turns", phase |-> "geometry", edges |-> x.edges, at |-> x.at,
           restrictions |-> x.restrictions, barriers |-> x.barriers,
           parallel |-> x.parallel, round |-> x.round, via |-> x.via,
           merge |-> None, I |-> None, handler |-> None, turns |-> <<>>]

At(phase) == job.service = "turns" /\ job.phase = phase

Geometries ==
  /\ At("geometry")
  /\ job' = [job EXCEPT !.phase = "view", !.merge = getIntersectionGeometries(Target(job.via))]

View ==
  /\ At("view")
  /\ \E view \in {convertToIntersectionView(job.merge.geometry, job.via, job.merge.hidden)} :
        job' = [job EXCEPT !.phase = "assign",
                           !.I = [k \in DOMAIN view |->
                                    [eid |-> view[k].eid, initial |-> view[k].initial,
                                     perceived |-> view[k].perceived, length |-> view[k].length,
                                     entry |-> view[k].entry, angle |-> view[k].angle,
                                     type |-> "Invalid", modifier |-> "UTurn"]]]

Assign(handler, I, next) ==
  job' = [job EXCEPT !.phase = next, !.handler = handler, !.I = I]

SuppressMode ==
  /\ At("assign") /\ SuppressModeCanProcess(job.via, job.I)
  /\ Assign("suppress", SuppressModeAssign(job.I), "annotate")

Roundabout ==
  /\ At("assign") /\ ~SuppressModeCanProcess(job.via, job.I)
  /\ RoundaboutCanProcess(Prior, job.via, job.I)
  /\ Assign("roundabout", RoundaboutAssign(Prior, job.via, job.I), "sliproad")

\* Ordinary turns have a default first.
Ordinary ==
  /\ At("assign")
  /\ ~SuppressModeCanProcess(job.via, job.I) /\ ~RoundaboutCanProcess(Prior, job.via, job.I)
Defaults == setTurnTypes(job.via, job.I)

Driveway ==
  /\ Ordinary /\ DrivewayCanProcess(job.I)
  /\ Assign("driveway", DrivewayAssign(job.via, Defaults), "sliproad")

Motorway ==
  /\ Ordinary /\ ~DrivewayCanProcess(job.I) /\ MotorwayCanProcess(job.via, job.I)
  /\ Assign("motorway", MotorwayAssign(job.via, Defaults), "sliproad")

Turn ==
  /\ Ordinary /\ ~DrivewayCanProcess(job.I) /\ ~MotorwayCanProcess(job.via, job.I)
  /\ Assign("turn", TurnHandlerAssign(job.via, Defaults), "sliproad")

Sliproads ==
  /\ At("sliproad")
  /\ LET I == IF Size(job.I) > 2 THEN SliproadAssign(job.via, job.I) ELSE job.I
     IN Assign(job.handler, RampsOffMotorway(job.via, I), "annotate")

\* The turns that are allowed, in the order of the edges, with what the
\* intersection says of them.
AnnotateTurns ==
  /\ At("annotate")
  /\ LET allowed == SelectSeq(OutInOrder(Target(job.via)),
                              LAMBDA e : isTurnAllowed(job.merge.geometry, job.via, e))
         found(e) == {k \in DOMAIN job.I : job.I[k].eid = e}
     IN job' = [job EXCEPT !.phase = "done",
                           !.turns = [i \in DOMAIN allowed |->
                                        [to |-> allowed[i],
                                         road |-> IF found(allowed[i]) = {} THEN None
                                                  ELSE job.I[Min(found(allowed[i]))]]]]

Next ==
  \/ Geometries \/ View
  \/ SuppressMode \/ Roundabout \/ Driveway \/ Motorway \/ Turn
  \/ Sliproads \/ AnnotateTurns

-----------------------------------------------------------------------------
Annotated == At("done")
Entered == {k \in DOMAIN job.I : job.I[k].entry}
Quiet(k) == job.I[k].type \in {"NoTurn", "Suppressed"}

\* Every turn that is allowed is found in the intersection, may be taken there and has
\* an instruction: roads merged into one, roads so close to the way back that they count
\* as U-turns and roads a handler passes over do not lose theirs.
TurnsInstructed ==
  Annotated => \A i \in DOMAIN job.turns :
                 LET road == job.turns[i].road
                 IN road # None /\ road.entry /\ road.type # "Invalid"

\* From when it is seen until it is annotated the intersection is valid: it starts with a
\* road at angle 0, the roads follow one another counter-clockwise although they are sorted
\* by how they start and not by these angles, and no road appears twice.
ViewValid ==
  job.service = "turns" /\ job.I # None =>
    /\ job.I[0].angle = 0
    /\ \A j, k \in DOMAIN job.I : j < k => job.I[j].angle <= job.I[k].angle /\ job.I[j].eid # job.I[k].eid

\* At most one road is followed in silence, but on a ferry or a train, where all are, and
\* where a third road in the direction of one of two silent roads makes the handler
\* declare it obvious to tell the two apart.
OneSilentRoad ==
  Annotated /\ job.handler # "suppress" =>
    \A j, k \in Entered :
      j # k /\ Quiet(j) /\ Quiet(k) =>
        \E silent \in {j, k}, other \in Entered \ {j, k} :
          getTurnDirection(job.I[silent].angle) = getTurnDirection(job.I[other].angle)

\* A fork is announced for no single road: there is always another branch to enter.
ForksBranch == Annotated => Cardinality({k \in Entered : job.I[k].type = "Fork"}) # 1

\* No road announced to the left lies to the right of one announced to the right, however
\* conflicts between roads of one direction were resolved.  Merges are left out: the side
\* they name is that of the traffic.
SidesKept ==
  Annotated =>
    \A j, k \in {e \in Entered \ {0} : job.I[e].type # "Merge"} :
      j < k => ~(job.I[j].modifier \in LeftModifiers /\ job.I[k].modifier \in RightModifiers)

\* The turn handler never lets a change of the travel mode pass in silence or as a mere
\* change of names.
ModesAnnounced ==
  Annotated /\ job.handler = "turn" =>
    \A k \in Entered : (Quiet(k) \/ job.I[k].type = "NewName") /\ job.I[k].modifier # "UTurn" =>
                         Edge(job.I[k].eid).mode = Edge(job.via).mode

\* Next to a sliproad there is no fork: the main road that stays has become obvious.
SliproadsEndForks ==
  Annotated => \A j, k \in Entered : job.I[j].type = "Sliproad" => job.I[k].type # "Fork"

\* The pairs of roads that are merged into one share no road, so that none is bent twice.
MergedPairsDisjoint ==
  job.service = "turns" /\ job.merge # None =>
    Cardinality(job.merge.merged) = 2 * Cardinality(job.merge.hidden)

\* The type of a roundabout does not depend on where it is entered: every node of it
\* gives the type that this intersection was annotated with.
RoundaboutTypeAgrees ==
  Annotated /\ job.handler = "roundabout" =>
    \A e \in DOMAIN job.edges :
      OnCircle(e) => getRoundaboutType(Edge(e).source) = getRoundaboutType(Target(job.via))

\* Every turn out of an intersection is seen once and gets an instruction.
TurnsComplete == ViewValid /\ MergedPairsDisjoint /\ TurnsInstructed

\* The instructions of an intersection agree with each other, whichever handlers gave them.
TurnsCoherent ==
  /\ OneSilentRoad
  /\ ForksBranch
  /\ SidesKept
  /\ ModesAnnounced
  /\ SliproadsEndForks
  /\ RoundaboutTypeAgrees
=============================================================================
