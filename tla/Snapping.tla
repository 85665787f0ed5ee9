------------------------------ MODULE Snapping ------------------------------
(* The static R-tree over the road segments (util/static_rtree.hpp), with  *)
(* its rectangles (util/rectangle.hpp), the Hilbert order of the leaves    *)
(* (util/hilbert_value.hpp) and the projection of a point on a segment.    *)
(* A coordinate is a pair <<lon, lat>> of small integers.  Segments are    *)
(* parallel to an axis, so every projection is an exact grid point.        *)
EXTENDS Integers, Sequences, SequencesExt, FiniteSetsExt, Algorithms, TrafficWeights

CONSTANTS LEAF_NODE_SIZE,    \* segments of a leaf
          BRANCHING_FACTOR,  \* children of an inner node
          HilbertBits        \* bits of a coordinate

Lon(p) == p[1]
Lat(p) == p[2]

\* Web Mercator: longitudes stay, latitudes are stretched away from the equator.
latToY(lat) == lat + (lat \div 3)
fromWGS84(p) == <<Lon(p), latToY(Lat(p))>>

-----------------------------------------------------------------------------
(* Distances and projections *)

squaredEuclideanDistance(p, q) ==
  (Lon(p) - Lon(q)) * (Lon(p) - Lon(q)) + (Lat(p) - Lat(q)) * (Lat(p) - Lat(q))

\* The clamped position of a point along a segment, as a fraction num/den.
Ratio(u, v, p) ==
  LET dot == (Lon(v) - Lon(u)) * (Lon(p) - Lon(u)) + (Lat(v) - Lat(u)) * (Lat(p) - Lat(u))
      length == squaredEuclideanDistance(u, v)
  IN IF length = 0 THEN [num |-> 0, den |-> 1]
     ELSE [num |-> Max({0, Min({dot, length})}), den |-> length]

projectPointOnSegment(u, v, p) ==
  LET r == Ratio(u, v, p)
      along(a, b) == ((r.den - r.num) * a + r.num * b) \div r.den
  IN <<along(Lon(u), Lon(v)), along(Lat(u), Lat(v))>>

-----------------------------------------------------------------------------
(* Rectangles *)

Far == 1000                   \* the limits of the coordinate type
EmptyRectangle == [min_lon |-> Far, max_lon |-> -Far, min_lat |-> Far, max_lat |-> -Far]

MergeBoundingBoxes(a, b) ==
  [min_lon |-> Min({a.min_lon, b.min_lon}), max_lon |-> Max({a.max_lon, b.max_lon}),
   min_lat |-> Min({a.min_lat, b.min_lat}), max_lat |-> Max({a.max_lat, b.max_lat})]

Spanning(p, q) ==
  [min_lon |-> Min({Lon(p), Lon(q)}), max_lon |-> Max({Lon(p), Lon(q)}),
   min_lat |-> Min({Lat(p), Lat(q)}), max_lat |-> Max({Lat(p), Lat(q)})]

Intersects(a, b) ==
  ~(\/ a.max_lon < b.min_lon \/ a.min_lon > b.max_lon
    \/ a.max_lat < b.min_lat \/ a.min_lat > b.max_lat)

GetMinSquaredDist(box, p) ==
  LET side(x, low, high) == IF x > high THEN high ELSE IF x < low THEN low ELSE x
  IN squaredEuclideanDistance(p, <<side(Lon(p), box.min_lon, box.max_lon),
                                   side(Lat(p), box.min_lat, box.max_lat)>>)

-----------------------------------------------------------------------------
(* The Hilbert curve: a state machine over the bits of both coordinates.   *)

HilbertDigit == << <<0, 1, 3, 2>>, <<0, 3, 1, 2>>, <<2, 3, 1, 0>>, <<2, 1, 3, 0>> >>
HilbertState == << <<2, 1, 4, 1>>, <<1, 3, 2, 2>>, <<4, 2, 3, 4>>, <<3, 4, 1, 3>> >>

HilbertToLinear(x, y) ==
  LET bit(n, i) == (n \div (2 ^ (HilbertBits - i))) % 2
      step(acc, i) == LET row == (2 * bit(x, i)) + bit(y, i) + 1
                      IN [code |-> 4 * acc.code + HilbertDigit[acc.state][row],
                          state |-> HilbertState[acc.state][row]]
  IN InTurn(step, [code |-> 0, state |-> 1], [i \in 1..HilbertBits |-> i]).code

centroid(p, q) == <<(Lon(p) + Lon(q)) \div 2, (Lat(p) + Lat(q)) \div 2>>
GetHilbertCode(segment) == LET c == fromWGS84(centroid(segment.u, segment.v))
                           IN HilbertToLinear(Lon(c), Lat(c))

-----------------------------------------------------------------------------
(* Construction *)

SegmentBox(segment) == Spanning(fromWGS84(segment.u), fromWGS84(segment.v))
Merged(boxes) == FoldLeft(MergeBoundingBoxes, EmptyRectangle, boxes)

Groups(count, size) == (count + size - 1) \div size
Grouped(boxes, size) ==
  [k \in 1..Groups(Len(boxes), size) |->
     Merged(SubSeq(boxes, (k - 1) * size + 1, Min({k * size, Len(boxes)})))]

\* From the root down to the leaves.
RECURSIVE Levels(_)
Levels(level) == IF Len(level) <= 1 THEN <<level>>
                 ELSE Append(Levels(Grouped(level, BRANCHING_FACTOR)), level)

StaticRTree(segments) ==
  LET objects == StableSort(segments, LAMBDA a, b : GetHilbertCode(a) < GetHilbertCode(b))
      levels == Levels(Grouped([i \in DOMAIN objects |-> SegmentBox(objects[i])],
                               LEAF_NODE_SIZE))
      starts[l \in 0..Len(levels)] ==
        IF l = 0 THEN 0 ELSE starts[l - 1] + Len(levels[l])
  IN [objects |-> objects,
      search_tree |-> FlattenSeq(levels),
      level_starts |-> [l \in 1..(Len(levels) + 1) |-> starts[l - 1]]]

-----------------------------------------------------------------------------
(* Navigation: levels, offsets and indexes count from 0 as in the code.    *)

is_leaf(tree, node) == node.level = Len(tree.level_starts) - 2

child_indexes(tree, node) ==
  IF is_leaf(tree, node)
  THEN LET first == node.offset * LEAF_NODE_SIZE
       IN first..(Min({first + LEAF_NODE_SIZE, Len(tree.objects)}) - 1)
  ELSE LET start == tree.level_starts[node.level + 2]
           end == tree.level_starts[node.level + 3]
           first == start + node.offset * BRANCHING_FACTOR
       IN first..(Min({first + BRANCHING_FACTOR, end}) - 1)

NoSegment == -1
TreeCandidate(dist, level, offset) ==
  [dist |-> dist, level |-> level, offset |-> offset, segment |-> NoSegment, at |-> <<0, 0>>]
is_segment(candidate) == candidate.segment # NoSegment

ExploreLeafNode(tree, node, p) ==
  {LET s == tree.objects[i + 1]
       nearest == projectPointOnSegment(fromWGS84(s.u), fromWGS84(s.v), p)
   IN [dist |-> squaredEuclideanDistance(p, nearest), level |-> node.level,
       offset |-> node.offset, segment |-> i, at |-> nearest] : i \in child_indexes(tree, node)}

ExploreTreeNode(tree, node, p) ==
  {TreeCandidate(GetMinSquaredDist(tree.search_tree[i + 1], p), node.level + 1,
                 i - tree.level_starts[node.level + 2]) : i \in child_indexes(tree, node)}

\* One round of the best-first search that ends at a tree node.
Explored(tree, queue, node, p) ==
  (queue \ {node}) \cup (IF is_leaf(tree, node) THEN ExploreLeafNode(tree, node, p)
                         ELSE ExploreTreeNode(tree, node, p))

Nearest_Queue == {TreeCandidate(0, 0, 0)}
Tops(queue) == {c \in queue : \A d \in queue : c.dist <= d.dist}

-----------------------------------------------------------------------------
(* Box search: nodes by projected boxes, segments by unprojected ones.     *)

BoxChildren(tree, node, box) ==
  LET projected == [box EXCEPT !.min_lat = latToY(box.min_lat), !.max_lat = latToY(box.max_lat)]
      start == tree.level_starts[node.level + 2]
      hit == {i \in child_indexes(tree, node) : Intersects(tree.search_tree[i + 1], projected)}
  IN [k \in 1..Cardinality(hit) |->
        [level |-> node.level + 1,
         offset |-> (CHOOSE i \in hit : Cardinality({j \in hit : j < i}) = k - 1) - start]]

\* The segments of a leaf inside the box.
BoxSegments(tree, node, box) ==
  {i \in child_indexes(tree, node) :
     Intersects(Spanning(tree.objects[i + 1].u, tree.objects[i + 1].v), box)}

-----------------------------------------------------------------------------
(* Snapping the coordinates of a request to the road network:              *)
(* GeospatialQuery (engine/geospatial_query.hpp) over the R-tree, the      *)
(* plugins' GetPhantomNodes and SnapPhantomNodes (plugin_base.hpp), hints  *)
(* (engine/hint.cpp) and the box search the tile service uses.             *)
(* A request is [kind, coordinates, radius, bearing, approach, any, max]:  *)
(*   "candidates"  route, table and trip: candidates with alternatives     *)
(*   "nearest"     the nearest service: max results                        *)
(*   "range"       map matching: everything within the radius              *)
(*   "box"         the tile service: segments in a box                     *)
(* Distances are compared squared, in the projected plane.                 *)
(*                                                                         *)
(* Phantom nodes carry weights scaled by the live records.  The records    *)
(* change while a request runs, by aggregations of this and of other       *)
(* threads (LiveTraffic); here a change comes between two coordinates, and *)
(* all phantom nodes of a coordinate read the same records.  Changes       *)
(* between the reads of one phantom node are RouteWeights'.                *)

CONSTANTS Segments,     \* sequence of road segments (EdgeBasedNodeSegment)
          Geometry,     \* id -> [fwd, rev]: weights of the geometry, rev in travel order
          Component,    \* id -> [id, tiny]
          Excluded,     \* ids an exclude flag rules out
          LeftHand,     \* ids of roads driven on the left
          Records,      \* what may be published: functions from id to weight factor or None
          MaxPublications,  \* bound: changes of the records during a job
          Requests,     \* the requests considered
          None          \* absent option
VARIABLE job

INVALID == 99           \* INVALID_SEGMENT_WEIGHT
SPECIAL == 0            \* SPECIAL_SEGMENTID: no reverse direction

\* The tree a job searches, built once.
Tree == job.tree

-----------------------------------------------------------------------------
(* Filters: which directions of a segment a request may use.               *)

Both(a, b) == <<a[1] /\ b[1], a[2] /\ b[2]>>
Some(pair) == pair[1] \/ pair[2]

CheckSegmentExclude(s) == <<~(s.fenabled /\ s.fid \in Excluded), ~(s.renabled /\ s.rid \in Excluded)>>

bearing(u, v) == CASE Lon(u) = Lon(v) /\ Lat(u) <= Lat(v) -> 0
                   [] Lon(u) = Lon(v) -> 180
                   [] Lon(u) < Lon(v) -> 90
                   [] OTHER -> 270

CheckInBounds(a, b, range) ==
  \/ range >= 180
  \/ /\ range >= 0
     /\ LET A == a % 360
            B == b % 360
        IN IF B - range < 0 THEN B - range + 360 <= A \/ A <= B + range
           ELSE IF B + range > 360 THEN B - range <= A \/ A <= B + range - 360
           ELSE B - range <= A /\ A <= B + range

CheckSegmentBearing(s, filter) ==
  LET forward == bearing(s.u, s.v)
      backward == IF forward + 180 > 360 THEN forward - 180 ELSE forward + 180
  IN IF filter = None THEN <<TRUE, TRUE>>
     ELSE <<CheckInBounds(forward, filter[1], filter[2]) /\ s.fenabled,
            CheckInBounds(backward, filter[1], filter[2]) /\ s.renabled>>

isCCW(p, q, r) ==
  (Lon(q) - Lon(p)) * (Lat(r) - Lat(p)) - (Lat(q) - Lat(p)) * (Lon(r) - Lon(p)) > 0

CheckApproach(p, s, approach) ==
  IF s.fenabled /\ s.renabled /\ approach = "curb"
  THEN LET right == ~isCCW(s.u, s.v, p)
           curb == IF s.fid \in LeftHand THEN ~right ELSE right
       IN <<curb, ~curb>>
  ELSE <<TRUE, TRUE>>

HasValidEdge(s, use_all_edges) ==
  LET g == Geometry[s.fid]
      open == s.is_startpoint \/ use_all_edges
  IN <<g.fwd[s.pos + 1] # INVALID /\ s.fenabled /\ open,
       g.rev[Len(g.rev) - s.pos] # INVALID /\ s.renabled /\ open>>

Usable(req, p, s) ==
  Both(Both(CheckSegmentExclude(s), CheckApproach(p, s, req.approach)),
       Both(HasValidEdge(s, req.any), CheckSegmentBearing(s, req.bearing)))

IsTinyComponent(s) == Component[s.fid].tiny

\* The directions a candidate keeps.
Narrowed(s, use) == [s EXCEPT !.fenabled = @ /\ use[1], !.renabled = @ /\ use[2]]

-----------------------------------------------------------------------------
(* Phantom nodes *)

Sum(ws, n) == FoldLeft(+, 0, SubSeq(ws, 1, n))
areSegmentsValid(ws, n) == \A i \in 1..n : ws[i] # INVALID

ApplyLiveTrafficToSegmentWeights(factor, ws) ==
  IF factor = None THEN ws ELSE [i \in DOMAIN ws |-> ApplyLiveTrafficToSegmentWeight(factor, ws[i])]

\* Which directions are valid is read from the stored weights, not the scaled ones.
MakePhantomNode(p, s) ==
  LET g == Geometry[s.fid]
      n == Len(g.fwd)
      live_forward == ApplyLiveTrafficToSegmentWeights(job.live[s.fid], g.fwd)
      live_reverse == ApplyLiveTrafficToSegmentWeights(job.live[s.fid], g.rev)
      r == Ratio(fromWGS84(s.u), fromWGS84(s.v), fromWGS84(p))
      part(w) == (w * r.num) \div r.den
      fw == live_forward[s.pos + 1]
      rw == live_reverse[n - s.pos]
  IN [fid |-> s.fid, rid |-> s.rid, fenabled |-> s.fenabled, renabled |-> s.renabled,
      pos |-> s.pos, component |-> Component[s.fid], input |-> p,
      at |-> projectPointOnSegment(fromWGS84(s.u), fromWGS84(s.v), fromWGS84(p)),
      fw |-> IF s.fid # SPECIAL THEN part(fw) ELSE fw, fo |-> Sum(live_forward, s.pos),
      rw |-> IF s.rid # SPECIAL THEN rw - part(rw) ELSE rw, ro |-> Sum(live_reverse, n - s.pos - 1),
      fsource |-> areSegmentsValid(g.fwd, n), ftarget |-> areSegmentsValid(g.fwd, s.pos + 1),
      rsource |-> areSegmentsValid(g.rev, n), rtarget |-> areSegmentsValid(g.rev, n - s.pos)]

add_to_candidates(p, candidates, s) ==
  LET same == {k \in DOMAIN candidates : candidates[k].fid = s.fid /\ candidates[k].rid = s.rid}
  IN IF same = {} THEN Append(candidates, MakePhantomNode(p, s))
     ELSE LET k == CHOOSE i \in same : TRUE
              old == candidates[k]
              both == s.fenabled /\ s.renabled
              old_both == old.fenabled /\ old.renabled
              replaced == IF old.pos < s.pos THEN both /\ ~old_both ELSE ~old_both \/ both
          IN IF replaced THEN [candidates EXCEPT ![k] = MakePhantomNode(p, s)] ELSE candidates

MakeAlternativeBigCandidates(p, nearest, results) ==
  LET add(lists, c) == IF c.at = nearest
                       THEN <<add_to_candidates(p, lists[1], c.data), lists[2]>>
                       ELSE <<lists[1], add_to_candidates(p, lists[2], c.data)>>
  IN FoldLeft(add, << <<>>, <<>> >>, results)

-----------------------------------------------------------------------------
(* The best-first search for one coordinate: one action per queue entry.   *)

Coordinate(j) == j.req.coordinates[j.i]
Top(c) == [at |-> c.at, data |-> Tree.objects[c.segment + 1], dist |-> c.dist]

\* What NearestCandidatesWithAlternativeFromBigComponent remembers of its finds.
NoFinds == [nearest |-> None, big |-> None, big_dist |-> Far * Far]

Fresh(tree, req, i, hints, live, published) ==
  [service |-> "snap", phase |-> "look", tree |-> tree, req |-> req, i |-> i, hints |-> hints,
   live |-> live, published |-> published,
   queue |-> {}, results |-> <<>>, finds |-> NoFinds, lists |-> <<>>, answer |-> None]

TooFar(req, c) == req.radius # None /\ c.dist > req.radius * req.radius

Terminate(j, c) ==
  CASE j.req.kind = "nearest" -> Len(j.results) >= j.req.max \/ TooFar(j.req, c)
    [] j.req.kind = "range" -> TooFar(j.req, c)
    [] j.req.kind = "candidates" ->
         (j.finds.big # None /\ c.dist > j.finds.big_dist) \/ TooFar(j.req, c)

\* A candidate away from the location already chosen for its kind of component.
Elsewhere(j, c) ==
  LET chosen == IF IsTinyComponent(c.data) THEN j.finds.nearest ELSE j.finds.big
  IN j.req.kind = "candidates" /\ chosen # None /\ c.at # chosen

Noted(finds, c) ==
  LET big == ~IsTinyComponent(c.data) /\ finds.big = None
  IN [nearest |-> IF finds.nearest = None THEN c.at ELSE finds.nearest,
      big |-> IF big THEN c.at ELSE finds.big,
      big_dist |-> IF big THEN c.dist ELSE finds.big_dist]

Visited(j, c) ==
  LET use == Usable(j.req, Coordinate(j), c.data)
  IN IF Elsewhere(j, c) \/ ~Some(use) THEN j
     ELSE [j EXCEPT !.results = Append(@, [c EXCEPT !.data = Narrowed(@, use)]),
                    !.finds = Noted(@, c)]

Explore ==
  /\ job.phase = "search"
  /\ \E c \in Tops(job.queue) :
       IF ~is_segment(c)
       THEN job' = [job EXCEPT !.queue = Explored(Tree, @, c, fromWGS84(Coordinate(job)))]
       ELSE IF Terminate(job, Top(c)) THEN job' = [job EXCEPT !.phase = "found"]
       ELSE job' = Visited([job EXCEPT !.queue = @ \ {c}], Top(c))

SearchExhausted ==
  /\ job.phase = "search" /\ job.queue = {}
  /\ job' = [job EXCEPT !.phase = "found"]

-----------------------------------------------------------------------------
(* Hints: the candidates of an earlier answer, with the data's checksum.   *)

HintIsValid(hint, p, checksum) ==
  /\ hint # <<>>
  /\ \A k \in DOMAIN hint : hint[k].phantom.input = p /\ hint[k].checksum = checksum
  /\ \A k, l \in DOMAIN hint :
       k # l => /\ hint[k].phantom.fid # hint[l].phantom.fid
                /\ hint[k].phantom.rid # hint[l].phantom.rid

Look ==
  /\ job.phase = "look"
  /\ LET hint == job.hints[job.i]
     IN job' = IF HintIsValid(hint, Coordinate(job), "data")
               THEN [job EXCEPT !.lists = Append(@, << [k \in DOMAIN hint |-> hint[k].phantom], <<>> >>),
                                !.phase = "next"]
               ELSE [job EXCEPT !.phase = "search", !.queue = Nearest_Queue,
                                !.results = <<>>, !.finds = NoFinds]

Found ==
  /\ job.phase = "found"
  /\ LET p == Coordinate(job)
         phantoms == [k \in DOMAIN job.results |-> MakePhantomNode(p, job.results[k].data)]
         lists == IF job.req.kind # "candidates" THEN <<phantoms, <<>>>>
                  ELSE MakeAlternativeBigCandidates(p, job.finds.nearest, job.results)
     IN job' = [job EXCEPT !.queue = {}, !.lists = Append(@, lists),
                           !.phase = IF lists[1] = <<>> /\ job.req.kind # "range"
                                     THEN "missing" ELSE "next"]

NextCoordinate ==
  /\ job.phase = "next" /\ job.i < Len(job.req.coordinates)
  /\ job' = [job EXCEPT !.i = @ + 1, !.phase = "look"]

\* The list stops at the coordinate without a segment, and one entry is popped
\* from the vector sized for all coordinates.
MissingPhantomErrorMessage(j) ==
  LET n == Len(j.req.coordinates)
      alternatives == [i \in 1..(n - 1) |->
                         IF i <= Len(j.lists) THEN j.lists[i] ELSE << <<>>, <<>> >>]
      bad == {i \in 1..(n - 1) : \A k \in DOMAIN alternatives[i][1] :
                                   alternatives[i][1][k].input # j.req.coordinates[i]}
  IN IF bad = {} THEN n ELSE Min(bad)

NoSegmentError ==
  /\ job.phase = "missing"
  /\ job' = [job EXCEPT !.phase = "answered",
                        !.answer = [code |-> "NoSegment", index |-> MissingPhantomErrorMessage(job)]]

-----------------------------------------------------------------------------
(* Choosing between the nearest and the big component *)

HaveComponent(phantoms, id) == \E k \in DOMAIN phantoms : phantoms[k].component.id = id

all_in_same_tiny_component_Pairwise(lists) ==
  \E k \in DOMAIN lists[1][1] : lists[1][1][k].component.tiny
all_in_same_tiny_component(lists) ==
  \E k \in DOMAIN lists[1][1] :
    /\ lists[1][1][k].component.tiny
    /\ \A i \in 2..Len(lists) : HaveComponent(lists[i][1], lists[1][1][k].component.id)

SnapPhantomNodes(lists) ==
  IF \/ \A i \in DOMAIN lists : lists[i][2] = <<>>
     \/ all_in_same_tiny_component(lists)
  THEN [i \in DOMAIN lists |-> lists[i][1]]
  ELSE [i \in DOMAIN lists |-> IF lists[i][2] = <<>> THEN lists[i][1] ELSE lists[i][2]]

Answer ==
  /\ job.phase = "next" /\ job.i = Len(job.req.coordinates)
  /\ job' = [job EXCEPT !.phase = "answered",
                        !.answer = [code |-> "Ok", phantoms |-> SnapPhantomNodes(job.lists)]]

\* The client asks again with the hints of the answer, of the same data or of older data.
AskAgain ==
  /\ job.phase = "answered" /\ job.req.kind = "candidates" /\ job.answer.code = "Ok"
  /\ \A i \in DOMAIN job.hints : job.hints[i] = <<>>
  /\ \E checksum \in {"data", "older"} :
       job' = Fresh(job.tree, job.req, 1,
                    [i \in DOMAIN job.answer.phantoms |->
                       [k \in DOMAIN job.answer.phantoms[i] |->
                          [phantom |-> job.answer.phantoms[i][k], checksum |-> checksum]]],
                    job.live, job.published)

\* An aggregation changes the records.
Publish ==
  /\ job.phase = "look" /\ job.published < MaxPublications
  /\ \E live \in Records \ {job.live} :
       job' = [job EXCEPT !.live = live, !.published = @ + 1]

-----------------------------------------------------------------------------
(* The box search of the tile service *)

SearchInBox ==
  /\ job.phase = "box" /\ job.queue # <<>>
  /\ LET node == Head(job.queue)
     IN job' = IF is_leaf(Tree, node)
               THEN [job EXCEPT !.queue = Tail(@),
                                !.results = @ \o SetToSeq(BoxSegments(Tree, node, job.req.box))]
               ELSE [job EXCEPT !.queue = Tail(@) \o BoxChildren(Tree, node, job.req.box)]

BoxDone ==
  /\ job.phase = "box" /\ job.queue = <<>>
  /\ job' = [job EXCEPT !.phase = "answered", 
                        !.answer = [code |-> "Ok", segments |-> job.results]]

-----------------------------------------------------------------------------
Init ==
  \E tree \in {StaticRTree(Segments)} : \E req \in Requests, live \in Records :
    job = IF req.kind = "box"
          THEN [Fresh(tree, req, 1, <<>>, live, 0) EXCEPT !.phase = "box",
                                                          !.queue = <<[level |-> 0, offset |-> 0]>>]
          ELSE Fresh(tree, req, 1, [i \in DOMAIN req.coordinates |-> <<>>], live, 0)

Next == \/ Publish \/ Look \/ Explore \/ SearchExhausted \/ Found \/ NextCoordinate
        \/ NoSegmentError \/ Answer \/ AskAgain \/ SearchInBox \/ BoxDone

Spec == Init /\ [][Next]_job
-----------------------------------------------------------------------------
(* Properties *)

Snapping(kind) == job.service = "snap" /\ job.req.kind = kind
Objects == DOMAIN Tree.objects
DistanceOf(i, p) ==
  LET s == Tree.objects[i]
  IN squaredEuclideanDistance(fromWGS84(p),
       projectPointOnSegment(fromWGS84(s.u), fromWGS84(s.v), fromWGS84(p)))
PlaceOf(i, p) ==
  LET s == Tree.objects[i] IN projectPointOnSegment(fromWGS84(s.u), fromWGS84(s.v), fromWGS84(p))
Admissible(req, p) ==
  {i \in Objects : /\ Some(Usable(req, p, Tree.objects[i]))
                   /\ req.radius # None => DistanceOf(i, p) <= req.radius * req.radius}

\* The queue entry of a segment or of a node above it.
Stands(c, i) ==
  IF is_segment(c) THEN c.segment = i - 1
  ELSE LET height == (Len(Tree.level_starts) - 2) - c.level
           width == LEAF_NODE_SIZE * BRANCHING_FACTOR ^ height
       IN (i - 1) \div width = c.offset

\* Best-first search loses no segment (Nearest, ExploreTreeNode, ExploreLeafNode):
\* while it runs, every segment farther than the head of the queue still has
\* itself or a node above it in the queue, no farther away than the segment is.
QueueCovers ==
  job.service = "snap" /\ job.phase = "search" =>
    LET p == Coordinate(job)
    IN \A i \in Objects :
         \/ \E c \in job.queue : Stands(c, i) /\ c.dist <= DistanceOf(i, p)
         \/ \A c \in job.queue : DistanceOf(i, p) <= c.dist

\* NearestCandidatesWithAlternativeFromBigComponent finds what a scan of all
\* segments finds: a nearest location if any segment may be used, every usable
\* segment of a tiny component there, and every usable segment of a big component
\* at the nearest location that has one.
NearestFound ==
  Snapping("candidates") /\ job.phase = "found" =>
    LET p == Coordinate(job)
        all == Admissible(job.req, p)
        big == {i \in all : ~IsTinyComponent(Tree.objects[i])}
        found == {job.results[k].data : k \in DOMAIN job.results}
        reported(i) == \E s \in found : s.u = Tree.objects[i].u /\ s.v = Tree.objects[i].v
        nearest(S, place) == \E i \in S : /\ PlaceOf(i, p) = place
                                          /\ \A l \in S : DistanceOf(i, p) <= DistanceOf(l, p)
    IN /\ (all = {}) = (found = {})
       /\ all # {} => nearest(all, job.finds.nearest)
       /\ big # {} => nearest(big, job.finds.big)
       /\ \A i \in all \ big : PlaceOf(i, p) = job.finds.nearest => reported(i)
       /\ \A i \in big : PlaceOf(i, p) = job.finds.big => reported(i)
       /\ \A s \in found : s.fenabled \/ s.renabled

\* The nearest service and map matching get the closest usable segments, in the
\* order of their distance and none left out before the last.
ListedInOrder ==
  (Snapping("nearest") \/ Snapping("range")) /\ job.phase = "found" =>
    LET p == Coordinate(job)
        all == Admissible(job.req, p)
        n == Len(job.results)
        last == IF n = 0 THEN -1 ELSE job.results[n].dist
    IN /\ n = IF job.req.kind = "range" THEN Cardinality(all) ELSE Min({job.req.max, Cardinality(all)})
       /\ \A k \in 2..n : job.results[k - 1].dist <= job.results[k].dist
       /\ \A i \in all : DistanceOf(i, p) < last =>
            \E k \in 1..n : job.results[k].data.u = Tree.objects[i].u /\ job.results[k].data.v = Tree.objects[i].v

\* The candidates of one coordinate are distinct nodes of the search graph, as the
\* heaps of the searches require (MakeAlternativeBigCandidates, Hint::IsValid).
CandidatesDistinct ==
  job.service = "snap" =>
    \A i \in DOMAIN job.lists : \A l \in {1, 2} :
      LET c == job.lists[i][l]
      IN job.req.kind = "candidates" =>
           \A k, m \in DOMAIN c : k # m => c[k].fid # c[m].fid /\ (c[k].rid = c[m].rid => c[k].rid = SPECIAL)

\* A missing segment is reported for the first coordinate that has none
\* (GetPhantomNodes, MissingPhantomErrorMessage).
MissingNamed ==
  job.service = "snap" /\ job.answer # None /\ job.answer.code = "NoSegment" =>
      LET without == {i \in DOMAIN job.req.coordinates :
                        Admissible(job.req, job.req.coordinates[i]) = {}}
      IN without # {} /\ job.answer.index = Min(without)

\* SnapPhantomNodes keeps a request together: when the nearest candidates of all
\* coordinates share a component the snapped ones do, and when they share no tiny
\* component every coordinate near a big component is snapped to one.
SnapTogether ==
  Snapping("candidates") /\ job.answer # None /\ job.answer.code = "Ok" =>
    LET lists == job.lists
        snapped == job.answer.phantoms
        shared(at(_)) == \E k \in DOMAIN at(1) : \A i \in DOMAIN lists : HaveComponent(at(i), at(1)[k].component.id)
        near(i) == lists[i][1]
        chosen(i) == snapped[i]
        tiny == \E k \in DOMAIN near(1) : /\ near(1)[k].component.tiny
                                          /\ \A i \in DOMAIN lists : HaveComponent(near(i), near(1)[k].component.id)
    IN /\ shared(near) => shared(chosen)
       /\ ~tiny => \A i \in DOMAIN lists :
            \A k \in DOMAIN snapped[i] : snapped[i][k].component.tiny => lists[i][2] = <<>>

\* A request repeated with the hints of its answer is answered alike, whether the
\* hints are accepted or refused (SegmentHint::IsValid, Hint::IsValid), unless two
\* places are equally far from a coordinate: the same places, and with the same
\* weights unless records were published since, which a hint knows nothing of.
AnswersRepeat ==
  /\ Snapping("candidates") /\ job.answer # None /\ job.hints[1] # <<>>
  /\ \A i \in DOMAIN job.hints : \A a, b \in Admissible(job.req, job.req.coordinates[i]) :
       LET p == job.req.coordinates[i]
       IN DistanceOf(a, p) = DistanceOf(b, p) => PlaceOf(a, p) = PlaceOf(b, p)
  =>
    LET before(i) == {job.hints[i][k].phantom : k \in DOMAIN job.hints[i]}
        now(i) == {job.answer.phantoms[i][k] : k \in DOMAIN job.answer.phantoms[i]}
        place(phantom) == [phantom EXCEPT !.fw = 0, !.fo = 0, !.rw = 0, !.ro = 0]
    IN /\ job.answer.code = "Ok"
       /\ \A i \in DOMAIN job.hints :
            /\ {place(a) : a \in before(i)} = {place(a) : a \in now(i)}
            /\ job.published = 0 => before(i) = now(i)

\* Two places on one segment: a route between them needs a loop in at most one
\* direction (MakePhantomNode's weights and offsets, requiresForwardLoop), unless
\* records were published between the two snaps, which compares weights of two times.
OneLoopAtMost ==
  Snapping("candidates") /\ job.published = 0 /\ job.answer # None /\ job.answer.code = "Ok" =>
    \A i, l \in DOMAIN job.answer.phantoms :
      \A k \in DOMAIN job.answer.phantoms[i], m \in DOMAIN job.answer.phantoms[l] :
        LET a == job.answer.phantoms[i][k]
            b == job.answer.phantoms[l][m]
        IN a.fid = b.fid /\ a.rid # SPECIAL /\ a.fsource /\ a.rsource =>
             ~(a.fw + a.fo > b.fw + b.fo /\ a.rw + a.ro > b.rw + b.ro)

\* A box search returns exactly the segments whose own box meets it, although the
\* tree is searched in projected and the segments in plain coordinates (SearchInBox).
BoxExact ==
  Snapping("box") /\ job.answer # None =>
    {job.answer.segments[k] : k \in DOMAIN job.answer.segments} =
    {i - 1 : i \in {o \in Objects : Intersects(Spanning(Tree.objects[o].u, Tree.objects[o].v), job.req.box)}}

\* Snapping as a whole: searches of the tree find what a scan of all segments would,
\* and the candidates of a request fit together, whether found or taken from hints.
SnappingExact ==
  /\ QueueCovers
  /\ NearestFound
  /\ ListedInOrder
  /\ BoxExact
  /\ CandidatesDistinct
  /\ MissingNamed
  /\ SnapTogether
  /\ AnswersRepeat
  /\ OneLoopAtMost
=============================================================================
