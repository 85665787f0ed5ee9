------------------------ MODULE IntersectionAnalysis ------------------------
(* The node-based graph as the analysis of intersections reads it, the     *)
(* classes of its roads and the view of an intersection from a road into   *)
(* it (extractor/road_classification.hpp, intersection_view.hpp).          *)
(*                                                                         *)
(* job.edges lists the directed edges by source and target, so that their  *)
(* numbers keep the order in which a node's edges are visited.  An edge has *)
(* its ends, whether it may be used in its direction (reversed: it may     *)
(* not), its class, name, mode, flags, the bearings with which it leaves   *)
(* its source and its length.                                              *)
(*                                                                         *)
(* A view is a function from 0, the road one comes from, to the last road, *)
(* counter-clockwise.                                                      *)
EXTENDS TurnInstruction, Algorithms

CONSTANTS Affixes            \* the affixes of the suffix table
VARIABLE job

STRAIGHT_ANGLE == 180
ORTHOGONAL_ANGLE == 90
MAXIMAL_ALLOWED_NO_TURN_DEVIATION == 3
NARROW_TURN_ANGLE == 40
GROUP_ANGLE == 60
FUZZY_ANGLE_DIFFERENCE == 25
DISTINCTION_RATIO == 2

-----------------------------------------------------------------------------
Edge(eid) == job.edges[eid]
Target(eid) == job.edges[eid].target
Out(node) == {e \in DOMAIN job.edges : job.edges[e].source = node}
InOrder(S) == [k \in 1..Cardinality(S) |-> CHOOSE x \in S : Cardinality({y \in S : y < x}) = k - 1]
OutInOrder(node) == InOrder(Out(node))
FindEdge(from, to) ==
  LET found == {e \in Out(from) : Target(e) = to}
  IN CHOOSE e \in found : \A f \in found : e <= f
OutDegree(node) == Cardinality(Out(node))
DirectedOutDegree(node) == Cardinality({e \in Out(node) : ~Edge(e).reversed})

\* Places are metres on a plane; a distance is rounded down to metres.
Distance(u, v) ==
  LET dx == job.at[u][1] - job.at[v][1]
      dy == job.at[u][2] - job.at[v][2]
      square == dx * dx + dy * dy
  IN CHOOSE d \in 0..1000 : d * d <= square /\ (d + 1) * (d + 1) > square

\* A name table entry without any text, and without a name.
EmptyId(sign) == sign.name = <<>> /\ sign.ref = <<>> /\ sign.exits = <<>> /\ sign.pronunciation = <<>>
Unnamed(sign) == sign.name = <<>>
Announced(from, to) == requiresNameAnnounced(Edge(from).sign, Edge(to).sign, Affixes)

HaveIdenticalNames(lhs, rhs) ==
  /\ ~Unnamed(Edge(lhs).sign) /\ ~Unnamed(Edge(rhs).sign)
  /\ ~Announced(lhs, rhs) /\ ~Announced(rhs, lhs)

-----------------------------------------------------------------------------
(* Classes: [motorway, link, low, prio] and the number of lanes.           *)
IsRampClass(cls) == cls.motorway /\ cls.link
IsMotorwayClass(cls) == cls.motorway /\ ~cls.link

canBeSeenAsFork(first, second) == first.prio - second.prio \in -1..1

getRoadGroup(cls) ==
  CASE cls.prio <= 1 -> 0
    [] cls.prio \in 2..3 -> 1
    [] cls.prio \in 4..9 -> 2
    [] cls.prio \in 10..13 -> 3
    [] cls.prio \in 14..15 -> 4
    [] cls.prio = 16 -> 5
    [] cls.prio = 17 -> 6
    [] OTHER -> 7

strictlyLess(lhs, rhs) ==
  \/ lhs.low /\ ~rhs.low
  \/ lhs.low = rhs.low /\ getRoadGroup(lhs) > getRoadGroup(rhs)

isLinkTo(link, road) ==
  link.link /\ ~road.link /\ link.prio \in {1, 3, 5, 7, 9} /\ road.prio = link.prio - 1

obviousByRoadClass(in_class, obvious, compare) ==
  \/ 4 * compare.prio > 7 * obvious.prio /\ in_class = obvious
  \/ ~obvious.low /\ ~in_class.low /\ compare.low

-----------------------------------------------------------------------------
(* Views.                                                                  *)
Size(I) == Cardinality(DOMAIN I)
Deviation(road) == angularDeviation(road.angle, STRAIGHT_ANGLE)
Nowhere == -1

\* The first road whose key is least.
FirstLeast(key) ==
  CHOOSE k \in DOMAIN key : \A j \in DOMAIN key : key[k] < key[j] \/ (key[k] = key[j] /\ k <= j)

FindClosestBearing(I, bearing) == FirstLeast([k \in DOMAIN I |-> angularDeviation(I[k].perceived, bearing)])
ClosestAmong(I, among, angle) == FirstLeast([k \in among |-> angularDeviation(I[k].angle, angle)])
findClosestTurn(I, angle) == ClosestAmong(I, DOMAIN I, angle)

\* The closest of the roads that a filter leaves, if it leaves any.
findClosestTurnOf(I, angle, left) == IF left = {} THEN Nowhere ELSE ClosestAmong(I, left, angle)

isTrafficSignalOrBarrier(I) == Size(I) = 2
isDeadEnd(I) == \A k \in DOMAIN I \ {0} : ~I[k].entry
countEnterable(I) == Cardinality({k \in DOMAIN I : I[k].entry})
RightmostRoad(I) == IF Size(I) > 1 THEN 1 ELSE 0
LeftmostRoad(I) == Size(I) - 1

-----------------------------------------------------------------------------
(* What a driver sees at an intersection and how a road is followed over   *)
(* several (extractor/intersection/intersection_analysis.cpp and           *)
(* node_based_graph_walker).                                               *)
(*                                                                         *)
(* job.restrictions has the simple turn restrictions, job.barriers the     *)
(* nodes with a barrier.  The geometry of the roads at a node is a function *)
(* from its edges to their bearings and length.  Angles are whole degrees: *)
(* the half degree by which the order of two roads is kept is rounded off. *)

\* A road as a driver comes in over it has the reversed bearing.
OutgoingGeometries(node, close) ==
  [e \in Out(node) |->
     [initial |-> Edge(e).initial,
      perceived |-> IF close \/ OutDegree(node) <= 2 THEN Edge(e).close ELSE Edge(e).perceived,
      length |-> Edge(e).length]]

isTurnRestricted(from, via, to) ==
  \E r \in job.restrictions :
    r.from = from /\ r.via = via /\ (IF r.only THEN r.to # to ELSE r.to = to)

UturnPermitted(via) ==
  LET node == Target(via)
      from == Edge(via).source
      exits == {e \in Out(node) : ~Edge(e).reversed /\ ~isTurnRestricted(from, node, Target(e))}
      bidirectional == {e \in Out(node) : ~Edge(FindEdge(Target(e), node)).reversed}
  IN \/ node \in job.barriers
     \/ OutDegree(node) = 1
     \/ Cardinality(exits) = 1 \/ Cardinality(bidirectional) <= 1
     \/ Edge(via).uturn_lane

\* The edge at the widest angle, if one is above zero.
Widest(angle) ==
  LET open == {e \in DOMAIN angle : angle[e] > 0}
  IN IF open = {} THEN Nowhere ELSE FirstLeast([e \in open |-> -angle[e]])

\* The turn crosses a roundabout against its flow: it lies between the way in
\* and the edge on which the roundabout reaches the node.
Circle(node, against) ==
  {e \in Out(node) : (Edge(e).roundabout \/ Edge(e).circular) /\ Edge(e).reversed = against}
AgainstFlow(around, start, turn) == (start < around /\ turn < start) \/ (start > around /\ turn > start)
CrossesBetween(G, back, to, source, sink) ==
  LET from(bearing) == angleBetween(reverse(G[source].perceived), bearing)
  IN /\ source # Nowhere /\ sink # Nowhere
     /\ AgainstFlow(from(G[sink].perceived), from(back), from(G[to].perceived))
CrossesRoundabout(G, via, to) ==
  LET node == Target(via)
      back == G[FindEdge(node, Edge(via).source)].perceived
  IN CrossesBetween(G, back, to,
                    Widest([e \in Circle(node, TRUE) |-> angleBetween(reverse(G[e].perceived), back)]),
                    Widest([e \in Circle(node, FALSE) |-> angleBetween(back, G[e].perceived)]))

isTurnAllowed(G, via, to) ==
  LET node == Target(via)
  IN /\ ~Edge(via).reversed /\ ~Edge(to).reversed
     /\ ~isTurnRestricted(Edge(via).source, node, Target(to))
     /\ IF Target(to) = Edge(via).source THEN UturnPermitted(via)
        ELSE node \notin job.barriers /\ ~CrossesRoundabout(G, via, to)

-----------------------------------------------------------------------------
(* The view from an edge.                                                  *)
\* A road and the angle by which it is placed.  An allowed turn next to the
\* way back that starts out on the other side of it is a U-turn.
Placed(turn, start) ==
  IF start = 0 THEN IF turn > 180 THEN 360 ELSE 0
  ELSE IF (turn > 270 /\ start < 90) \/ (turn < 90 /\ start > 270) THEN turn ELSE start
SeenAt(geometry, e, allowed, turn, start) ==
  [road |-> [eid |-> e, initial |-> geometry.initial, perceived |-> geometry.perceived,
             length |-> geometry.length, entry |-> allowed, angle |-> turn],
   adjusted |-> Placed(turn, start)]
SeenOrUturn(geometry, e, allowed, perceived, initial) ==
  IF allowed /\ ((perceived < 15 /\ initial > 180) \/ (perceived > 345 /\ initial < 180))
  THEN SeenAt(geometry, e, allowed, 0, 0)
  ELSE SeenAt(geometry, e, allowed, perceived, initial)
Seen(G, via, e) ==
  LET back == G[FindEdge(Target(via), Edge(via).source)]
  IN SeenOrUturn(G[e], e, isTurnAllowed(G, via, e), angleBetween(reverse(back.perceived), G[e].perceived),
                 angleBetween(reverse(back.initial), G[e].initial))

\* The roads other than the way back, those merged into another left out; the
\* way back stands in front unless another road is a U-turn.
OthersSeen(via, seen, merged) ==
  LET kept == SelectSeq(OutInOrder(Target(via)),
                        LAMBDA e : /\ Target(e) # Edge(via).source
                                   /\ seen[e].road.entry \/ (e \notin merged /\ seen[e].road.angle # 0))
  IN [i \in DOMAIN kept |-> seen[kept[i]]]
WithWayBack(uturn, others) ==
  IF uturn.road.entry \/ \A i \in DOMAIN others : others[i].road.angle # 0 THEN <<uturn>> \o others ELSE others
PlacedBefore(a, b) == a.adjusted < b.adjusted \/ (a.adjusted = b.adjusted /\ a.road.angle < b.road.angle)

\* Once the roads are in order no angle is below the one before it, and the
\* first road is one without an angle.
AnglesRaised(all) == [i \in DOMAIN all |-> [all[i].road EXCEPT !.angle = Max({all[j].road.angle : j \in 1..i})]]
StartsAtWayBack(uturn, roads) ==
  IF \A i \in DOMAIN roads : roads[i].angle # 0 THEN <<uturn.road>> \o roads ELSE roads
FromZero(roads) == Value([k \in 0..(Len(roads) - 1) |-> roads[k + 1]])

Sighted(via, seen, merged) ==
  LET uturn == [seen[Max({e \in Out(Target(via)) : Target(e) = Edge(via).source})] EXCEPT !.adjusted = 0]
  IN FromZero(StartsAtWayBack(uturn, AnglesRaised(
       StableSort(WithWayBack(uturn, OthersSeen(via, seen, merged)), PlacedBefore))))
convertToIntersectionView(G, via, merged) ==
  Sighted(via, Value([e \in Out(Target(via)) |-> Seen(G, via, e)]), merged)

getConnectedRoads(via, close) ==
  convertToIntersectionView(OutgoingGeometries(Target(via), close), via, {})

-----------------------------------------------------------------------------
(* Following a road.                                                       *)
\* road: an edge and the node before it.
SkipStep(start, road) ==
  LET next == Target(road.edge)
      first == OutInOrder(next)[1]
  IN IF OutDegree(next) # 2 \/ next = start THEN road
     ELSE [node |-> next,
           edge |-> IF Target(first) = road.node THEN OutInOrder(next)[2] ELSE first]

skipDegreeTwoNodes(node, eid) ==
  InTurn(LAMBDA road, i : SkipStep(node, road), [node |-> node, edge |-> eid],
         [i \in DOMAIN job.edges |-> i])

\* A walk of at most WALK_LIMIT (1000 in the code) edges.  A walk that loops
\* back, meets a dead end or finds no edge to select is lost where it is.
WALK_LIMIT == 12
ArriveAt(w, view) == [w EXCEPT !.hops = @ + 1, !.length = @ + Edge(w.edge).length, !.view = view]
GoOn(node, at, next, terminated) ==
  IF Target(at.edge) = node \/ next = Nowhere THEN [at EXCEPT !.state = "lost"]
  ELSE IF terminated THEN [at EXCEPT !.state = "arrived"]
  ELSE [at EXCEPT !.edge = next]
NewWalk(eid, hops) == [edge |-> eid, hops |-> hops, length |-> 0, view |-> <<>>, state |-> "walking"]
TraverseRoad(node, eid, hops, Select(_), Terminate(_)) ==
  LET arrived(at) == GoOn(node, at, IF Size(at.view) <= 1 THEN Nowhere ELSE Select(at.view), Terminate(at))
      step(w, i) == IF w.state # "walking" THEN w ELSE arrived(ArriveAt(w, getConnectedRoads(w.edge, TRUE)))
  IN InTurn(step, NewWalk(eid, hops), [i \in 1..WALK_LIMIT |-> i])

SkipTrafficSignalBarrierRoadSelector(view) ==
  IF isTrafficSignalOrBarrier(view) THEN view[1].eid ELSE Nowhere

\* The road that a name and straightness favour; no caller requires that it
\* may be entered.
BestByName(view, sign) ==
  FirstLeast([k \in DOMAIN view \ {0} |-> (IF Edge(view[k].eid).sign # sign THEN 180 ELSE 0) + Deviation(view[k])])

AmbiguousTurn(view, best) ==
  LET opposite == view[findClosestTurn(view, reverse(view[best].angle))]
      straight == view[findClosestTurn(view, STRAIGHT_ANGLE)]
  IN /\ Deviation(view[best]) > GROUP_ANGLE
     /\ \/ angularDeviation(view[best].angle, opposite.angle) > 180 - FUZZY_ANGLE_DIFFERENCE
        \/ Deviation(straight) < FUZZY_ANGLE_DIFFERENCE

SelectByName(view, named, best, bearing, stop_on_ambiguous) ==
  LET road == view[best]
      onwards == /\ Size(view) = 2 \/ findClosestTurn(view, STRAIGHT_ANGLE) = best
                 /\ Deviation(road) < NARROW_TURN_ANGLE
                 /\ angularDeviation(bearing, road.perceived) < NARROW_TURN_ANGLE
  IN IF Size(view) = 1 \/ Cardinality(named) > 2 THEN Nowhere
     ELSE IF onwards THEN road.eid
     ELSE IF stop_on_ambiguous /\ AmbiguousTurn(view, best) THEN Nowhere
     ELSE IF best \in named /\ Deviation(road) < 100 THEN road.eid ELSE Nowhere
SelectStraightmostRoadByNameAndOnlyChoice(view, sign, bearing, stop_on_ambiguous) ==
  SelectByName(view, {k \in DOMAIN view : Edge(view[k].eid).sign = sign}, BestByName(view, sign),
               bearing, stop_on_ambiguous)

\* Terminations of a walk.
AtIntersection(w, hop_limit) == Size(w.view) > 2 \/ w.hops = hop_limit

-----------------------------------------------------------------------------
(* The two directions of a divided road, merged into one where they meet    *)
(* (extractor/intersection/mergable_road_detector.cpp and the geometry part *)
(* of intersection_analysis.cpp).                                           *)
(*                                                                          *)
(* job.parallel has the pairs of edges whose roads run side by side, not     *)
(* farther apart than their lanes and a separation allow; job.round the      *)
(* edges whose road runs in a circle.                                        *)

MERGABLE_ANGLE_DIFFERENCE == 95
ASSUMED_LANE_WIDTH_100 == 325      \* hundredths of a metre
distance_to_extract == 120

IsDistinctFrom(G, lhs, rhs) ==
  \/ angularDeviation(G[lhs].perceived, G[rhs].perceived) > MERGABLE_ANGLE_DIFFERENCE
  \/ ~HaveIdenticalNames(lhs, rhs)

EdgeDataSupportsMerge(lhs, rhs) ==
  /\ ~Edge(lhs).roundabout /\ ~Edge(rhs).roundabout
  /\ Edge(lhs).mode = Edge(rhs).mode
  /\ HaveIdenticalNames(lhs, rhs)
  /\ Edge(lhs).cls = Edge(rhs).cls

IsTrafficLoop(node, eid) == Target(skipDegreeTwoNodes(node, eid).edge) = node

-----------------------------------------------------------------------------
\* Three roads of one name; it is enough that one change of names is silent.
AllSameNameAndDegreeThree(node) ==
  LET first == OutInOrder(node)[1]
  IN /\ OutDegree(node) = 3
     /\ \A e \in Out(node) : /\ ~Unnamed(Edge(first).sign) \/ ~Unnamed(Edge(e).sign)
                             /\ ~Announced(first, e) \/ ~Announced(e, first)

IsTrafficIsland(node, lhs, rhs) ==
  LET left == Target(skipDegreeTwoNodes(node, lhs).edge)
      right == Target(skipDegreeTwoNodes(node, rhs).edge)
      splits == AllSameNameAndDegreeThree(node)
      joins == AllSameNameAndDegreeThree(left)
  IN /\ left = right /\ left # node
     /\ splits \/ joins
     /\ Distance(node, left) < IF splits /\ joins THEN 30 ELSE 15

\* A link: the road of the same name goes straight on at the next intersection
\* as part of another road.
PartOfAnotherRoad(node, next, across) ==
  /\ Target(across.eid) # node
  /\ angularDeviation(Deviation(next), angularDeviation(across.angle, 0)) >= FUZZY_ANGLE_DIFFERENCE
  /\ angularDeviation(across.angle, next.angle) >= STRAIGHT_ANGLE - FUZZY_ANGLE_DIFFERENCE
  /\ Edge(next.eid).reversed = Edge(across.eid).reversed
  /\ EdgeDataSupportsMerge(next.eid, across.eid)
LinksAt(node, view, next) ==
  next # Nowhere
  /\ PartOfAnotherRoad(node, view[next], view[findClosestTurn(view, (view[next].angle + 180) % 360)])
LinksInView(node, eid, view) ==
  LinksAt(node, view, findClosestTurnOf(view, STRAIGHT_ANGLE, {k \in DOMAIN view : HaveIdenticalNames(eid, view[k].eid)}))
IsLinkRoad(node, eid) ==
  LET road == skipDegreeTwoNodes(node, eid)
  IN LinksInView(road.node, eid, getConnectedRoads(road.edge, FALSE))

\* A corner of the triangle: the first intersection along a road or, if it has
\* no turn to the side of the other road, the one after it.
SMALL_RANDOM_HOPLIMIT == 5
WalkBeside(G, node, eid, hops, lhs) ==
  TraverseRoad(node, eid, hops,
               LAMBDA view : SelectStraightmostRoadByNameAndOnlyChoice(view, Edge(lhs).sign,
                                                                       G[lhs].perceived, FALSE),
               LAMBDA w : AtIntersection(w, SMALL_RANDOM_HOPLIMIT))
CornerOrNext(G, first, lhs, side) ==
  IF angularDeviation(first.view[findClosestTurn(first.view, side)].angle, side) <= NARROW_TURN_ANGLE THEN first
  ELSE WalkBeside(G, Target(first.edge), first.view[findClosestTurn(first.view, STRAIGHT_ANGLE)].eid,
                  IF first.state = "arrived" THEN 0 ELSE first.hops, lhs)
TriangleCorner(G, node, eid, lhs, side) == CornerOrNext(G, WalkBeside(G, node, eid, 0, lhs), lhs, side)

NumberOfLanes(eid) == Max({1, Edge(eid).lanes})

TriangleAcross(G, node, lhs, rhs, left, c) ==
  LET b == Target(left.edge)
      connector == left.view[findClosestTurn(left.view, ORTHOGONAL_ANGLE)]
      width == (NumberOfLanes(lhs) + NumberOfLanes(rhs)) * ASSUMED_LANE_WIDTH_100
  IN /\ Distance(node, b) <= 80
     /\ angularDeviation(connector.angle, ORTHOGONAL_ANGLE) <= NARROW_TURN_ANGLE
     /\ 100 * Distance(b, c) <= width + 1000
     /\ Target(WalkBeside(G, b, connector.eid, 0, lhs).edge) = c
IsNarrowTriangle(G, node, lhs, rhs) ==
  TriangleAcross(G, node, lhs, rhs, TriangleCorner(G, node, lhs, lhs, ORTHOGONAL_ANGLE),
                 Target(TriangleCorner(G, node, rhs, lhs, 270).edge))

\* The road followed for the length that is compared.
AlongWay(G, node, eid, lhs, stop_on_ambiguous) ==
  TraverseRoad(node, eid, 0,
               LAMBDA view : SelectStraightmostRoadByNameAndOnlyChoice(view, Edge(eid).sign,
                                                                       G[lhs].perceived, stop_on_ambiguous),
               LAMBDA w : w.length >= distance_to_extract)

HaveSameDirection(G, node, lhs, rhs) ==
  /\ \A eid \in {lhs, rhs} : AlongWay(G, node, eid, lhs, TRUE).length > 40
  /\ {lhs, rhs} \in job.parallel

\* Both ways lead back to where they started, within the length followed.
IsCircularShape(G, node, lhs, rhs) ==
  LET closed(w) == Target(w.edge) = node /\ w.length <= distance_to_extract
  IN /\ \A eid \in {lhs, rhs} : closed(AlongWay(G, node, eid, lhs, FALSE))
     /\ lhs \in job.round

CanMergeRoad(G, node, lhs, rhs) ==
  /\ angularDeviation(G[lhs].perceived, G[rhs].perceived) <= MERGABLE_ANGLE_DIFFERENCE
  /\ Edge(lhs).reversed # Edge(rhs).reversed
  /\ EdgeDataSupportsMerge(lhs, rhs)
  /\ Target(lhs) # node /\ Target(rhs) # node
  /\ \A eid \in {lhs, rhs} : ~IsTrafficLoop(node, eid)
  /\ \/ IsTrafficIsland(node, lhs, rhs)
     \/ /\ \A eid \in {lhs, rhs} : ~IsLinkRoad(node, eid)
        /\ \/ IsNarrowTriangle(G, node, lhs, rhs)
           \/ HaveSameDirection(G, node, lhs, rhs) /\ ~IsCircularShape(G, node, lhs, rhs)

-----------------------------------------------------------------------------
(* Merging the roads of an intersection.  order lists the edges clockwise.  *)
findAngleBisector(alpha, beta) ==
  LET apart == angularDeviation(alpha, beta)
  IN IF (alpha + apart) % 360 = beta THEN (alpha + (apart \div 2)) % 360 ELSE (beta + (apart \div 2)) % 360

Clockwise(G) ==
  Ordered(DOMAIN G, LAMBDA a, b : G[a].perceived < G[b].perceived \/ (G[a].perceived = G[b].perceived /\ a < b))
CyclicAt(order, i) == order[(i % Len(order)) + 1]      \* i counts from zero

findMergedBearing(G, order, lhs, rhs, neighbor) ==
  LET entry == IF Edge(lhs).reversed THEN rhs ELSE lhs
      away(e) == angularDeviation(G[e].perceived, reverse(G[entry].perceived))
      first == CHOOSE i \in DOMAIN order :
                 \A j \in DOMAIN order : away(order[i]) < away(order[j])
                                         \/ (away(order[i]) = away(order[j]) /\ i <= j)
      opposite == reverse(G[order[first]].perceived)
      merged == findAngleBisector(G[rhs].perceived, G[lhs].perceived)
      bend(bearing) == angularDeviation(angleBetween(opposite, bearing), STRAIGHT_ANGLE)
  IN IF bend(G[entry].perceived) < MAXIMAL_ALLOWED_NO_TURN_DEVIATION
     THEN [usable |-> FALSE, bearing |-> G[entry].perceived]
     ELSE IF neighbor /\ (bend(G[lhs].perceived) < bend(merged) \/ bend(G[rhs].perceived) < bend(merged))
     THEN [usable |-> FALSE, bearing |-> opposite]
     ELSE [usable |-> TRUE, bearing |-> merged]

\* i counts from zero along the order.
isRoadsPairMergeable_Overlap(G, order, node, i) ==
  LET lhs == CyclicAt(order, i)
      rhs == CyclicAt(order, i + 1)
  IN CanMergeRoad(G, node, lhs, rhs)
isRoadsPairMergeable(G, order, node, i) ==
  LET size == Len(order)
      lhs == CyclicAt(order, i)
      rhs == CyclicAt(order, i + 1)
  IN /\ IsDistinctFrom(G, CyclicAt(order, i + size - 1), lhs)
     /\ CanMergeRoad(G, node, lhs, rhs)
     /\ IsDistinctFrom(G, rhs, CyclicAt(order, i + 2))

Bent(G, e, bearing) == [G EXCEPT ![e].perceived = bearing, ![e].initial = bearing]

\* One pair of neighbouring roads after another, each on the bearings that the
\* ones before it left.
MergePair(m, order, node, i) ==
  LET lhs == CyclicAt(order, i)
      rhs == CyclicAt(order, i + 1)
      bearing == findMergedBearing(m.geometry, order, lhs, rhs, FALSE).bearing
  IN IF ~isRoadsPairMergeable(m.geometry, order, node, i) THEN m
     ELSE [geometry |-> Bent(Bent(m.geometry, lhs, bearing), rhs, bearing),
           merged |-> m.merged \cup {lhs, rhs},
           hidden |-> m.hidden \cup {IF Edge(lhs).reversed THEN lhs ELSE rhs}]

\* A short road whose other end is part of a merge there is bent by as much.
PRUNING_DISTANCE == 30
\* curr: the way back to the node, from one; mergeable: the pairs it may merge in, from zero.
BendAlong(m, e, N, order, curr, mergeable) ==
  LET size == Len(order)
      prev == curr + size - 2
      back == prev \in mergeable
      merge == findMergedBearing(N, order, IF back THEN CyclicAt(order, prev) ELSE order[curr],
                                 IF back THEN order[curr] ELSE CyclicAt(order, curr), TRUE)
      by(bearing) == (IF back THEN -1 ELSE 1) * angularDeviation(bearing, N[order[curr]].perceived)
      bent(found) == IF ~found.usable THEN m
                     ELSE [m EXCEPT !.geometry = Bent(@, e, (@[e].perceived + 360 + by(found.bearing)) % 360)]
  IN IF mergeable = {} THEN m ELSE bent(merge)
BendToNeighbor(m, node, e, there, N, order) ==
  LET size == Len(order)
      curr == CHOOSE i \in 1..size : /\ Target(order[i]) = node
                                     /\ \A j \in 1..(i - 1) : Target(order[j]) # node
  IN IF e \in m.merged \/ m.geometry[e].length > PRUNING_DISTANCE \/ size <= 1 THEN m
     ELSE BendAlong(m, e, N, order, curr,
                    {i \in {curr + size - 2, curr - 1} : isRoadsPairMergeable(N, order, there, i)})
AdjustToNeighbor(m, node, e) ==
  LET N == OutgoingGeometries(Target(e), FALSE)
  IN BendToNeighbor(m, node, e, Target(e), N, Clockwise(N))

getIntersectionGeometries(node) ==
  LET G == OutgoingGeometries(node, FALSE)
      order == Clockwise(G)
      start == [geometry |-> G, merged |-> {}, hidden |-> {}]
      here == IF Len(order) < 3 THEN start
              ELSE InTurn(LAMBDA m, i : MergePair(m, order, node, i), start, [i \in DOMAIN order |-> i - 1])
  IN IF Len(order) < 2 THEN start
     ELSE InTurn(LAMBDA m, e : AdjustToNeighbor(m, node, e), here, order)
=============================================================================
